---- MODULE Spec2Model ----
(***************************************************************************)
(* Model of the Haystack core manager (src/core/Haystack.ts, kept here as  *)
(* src/unnamed/part_001) and of the callers of its control surface         *)
(* (HaystackProvider.post, the haystack.startServer command).              *)
(*                                                                         *)
(* Strings that the code parses (version strings) are sequences of         *)
(* one-character strings, so that replace/split/Number are computed.       *)
(***************************************************************************)
EXTENDS Integers, Sequences, FiniteSets, TLC

\* ------------------------------------------------------------------ bounds
\* version components are drawn from 0..MaxPart and the two-digit 10
MaxPart == 2
\* number of manual haystack.startServer invocations explored
MaxManual == 1
\* length of the body of a download, in bytes
BodySize == 25
\* a data event carries 1..MaxChunk bytes
MaxChunk == 2
\* saves of documents explored
MaxSaves == 3
\* searches started at the search view: by the user and by searchText
MaxUiOps == 3
\* redirects one download is made to follow
MaxHops == 1
\* searches one provider is asked for
MaxSearches == 2
\* the backend answers a search with 0..MaxResults results
MaxResults == 2

\* ------------------------------------------------------- program constants
\* start(): if (this._startRetry > 10)
MaxStartRetry == 10
\* waitingForShutdown(): if (elapsedSeconds > 20), in milliseconds
ShutdownTimeoutMs == 20000
\* waitingForShutdown(): setTimeout(resolve, 200)
PollIntervalMs == 200
\* downloadFile(): percent >= lastReportedPercent + 5
ReportStep == 5

Status == {"initializing", "starting", "running", "unsupported", "error"}
InstallStatus == {"initializing", "downloading", "unsupported", "error",
                  "installed", "not-installed"}

\* --------------------------------------------------------- version strings
Digits == <<"0", "1", "2", "3", "4", "5", "6", "7", "8", "9">>

IsDigit(c) == \E i \in 1..10 : Digits[i] = c

DigitVal(c) == (CHOOSE i \in 1..10 : Digits[i] = c) - 1

\* decimal text of a number below 100 (how a version component is written)
Dec(n) == IF n < 10 THEN <<Digits[n + 1]>>
          ELSE <<Digits[(n \div 10) + 1], Digits[(n % 10) + 1]>>

\* the text "a.b.c" of a triple
Fmt(t) == Dec(t[1]) \o <<".">> \o Dec(t[2]) \o <<".">> \o Dec(t[3])

\* the value JavaScript's NaN is modelled by; every comparison with it is false
NaN == -1
\* the value of a missing array element (undefined); compares like NaN
Undefined == -2

\* String.prototype.replace(c, ''): removes the FIRST occurrence of c only
RECURSIVE ReplaceFirst(_, _)
ReplaceFirst(s, c) ==
  IF s = <<>> THEN <<>>
  ELSE IF Head(s) = c THEN Tail(s)
  ELSE <<Head(s)>> \o ReplaceFirst(Tail(s), c)

\* String.prototype.split(sep): the list of the pieces between separators
RECURSIVE SplitAcc(_, _, _)
SplitAcc(s, sep, cur) ==
  IF s = <<>> THEN <<cur>>
  ELSE IF Head(s) = sep THEN <<cur>> \o SplitAcc(Tail(s), sep, <<>>)
  ELSE SplitAcc(Tail(s), sep, Append(cur, Head(s)))

Split(s, sep) == SplitAcc(s, sep, <<>>)

\* Number(text) for texts over digits and letters: '' is 0, a run of digits
\* is its decimal value, anything else is NaN
RECURSIVE DecValue(_, _)
DecValue(s, acc) ==
  IF s = <<>> THEN acc ELSE DecValue(Tail(s), acc * 10 + DigitVal(Head(s)))

ToNumber(s) ==
  IF s = <<>> THEN 0
  ELSE IF \A i \in 1..Len(s) : IsDigit(s[i]) THEN DecValue(s, 0)
  ELSE NaN

\* a plausible slip: a missing component counts as 0
At_ZeroFill(parts, i) == IF i <= Len(parts) THEN parts[i] ELSE 0

\* parts[i] of a JavaScript array: undefined past the end
At(parts, i) == IF i <= Len(parts) THEN parts[i] ELSE Undefined

\* JavaScript a > b and a < b on numbers, NaN and undefined
JsGt(a, b) == a >= 0 /\ b >= 0 /\ a > b
JsLt(a, b) == a >= 0 /\ b >= 0 /\ a < b

VersionParts(version) ==
  LET pieces == Split(ReplaceFirst(version, "v"), ".")
  IN  [i \in 1..Len(pieces) |-> ToNumber(pieces[i])]

\* the for loop of isVersionCompatible, from index i (1-based) on
RECURSIVE CompareFrom(_, _, _)
CompareFrom(cur, req, i) ==
  IF i > 3 THEN TRUE
  ELSE IF JsGt(At(cur, i), At(req, i)) THEN TRUE
  ELSE IF JsLt(At(cur, i), At(req, i)) THEN FALSE
  ELSE CompareFrom(cur, req, i + 1)

\* a plausible slip: the loop stops before the patch component
isVersionCompatible_NoPatch(version, required) ==
  LET cur == VersionParts(version)
      req == VersionParts(required)
  IN  IF JsGt(At(cur, 1), At(req, 1)) THEN TRUE
      ELSE IF JsLt(At(cur, 1), At(req, 1)) THEN FALSE
      ELSE IF JsGt(At(cur, 2), At(req, 2)) THEN TRUE
      ELSE IF JsLt(At(cur, 2), At(req, 2)) THEN FALSE
      ELSE TRUE

isVersionCompatible(version, required) ==
  CompareFrom(VersionParts(version), VersionParts(required), 1)

\* ------------------------------------------------------------------- state
VARIABLES
  isHaystackSupported,  \* module constant computed from process.platform/arch
  localServer,          \* constructor argument (runningPort = LOCAL_PORT)
  haystackVersion,      \* "v" + packageJSON.haystackVersion
  requiredTriple,       \* the numbers haystackVersion was written from
  _status,
  _installStatus,
  _startRetry,
  pc,                   \* position of the initialization flow
  events,               \* every event emitted so far, in order
  calls,                \* every call of a status setter so far, in order
  exeExists,            \* the executable is on disk
  unlinkPending,        \* an un-awaited unlink of the executable is in flight
  versionReadable,      \* version.txt exists and can be read
  versionFile,          \* content of version.txt
  fileTriple,           \* the numbers version.txt was written from
  configWritten,        \* config.yaml was written by this run
  cacheZip,             \* download/{archive}: "absent", "small" or "ok"
  builtinZip,           \* pkgs/{archive}: "absent", "small" or "ok"
  serverUp,             \* a Haystack server answers on the port
  elapsedMs,            \* time waited by the running waitingForShutdown
  gateResult,           \* what checkIsCompatibleVersion found
  lastProbe,            \* result of the last health probe of start()
  probeOkSeen,          \* some health probe of start() succeeded
  spawns,               \* processes spawned by the start sequence
  invProbe1,            \* result of the first probe of the current start()
  invSpawns,            \* processes spawned by the current start()
  manualSpawns,         \* processes spawned through haystack.startServer
  manualInError,        \* haystack.startServer was run in status error
  lastPost,             \* outcome of the last post: "none", "threw", "sent"
  lastPostVia,          \* who made it: "none", "core" or "provider"
  listeners,            \* the event names that have a listener attached
  rejected,             \* doInit() or start() ended by throwing
  steps,                \* what each acquisition step did, while doInit is
                        \* in install() or has just left it
  _downloadProgress,    \* the DownloadProgress record
  dlSource,             \* the step downloading: "none", "primary", "fallback"
  hops,                 \* redirects followed by the running download
  lastResponse,         \* the last answer to client.get
  totalSize,            \* downloadFile's local totalSize
  downloadedSize,       \* downloadFile's local downloadedSize
  lastReportedPercent,  \* downloadFile's local lastReportedPercent
  cleanupPending,       \* an fs.unlink(destination) of a failed attempt is
                        \* in flight
  progressEvents,       \* the download-progress events of the running
                        \* attempt: how many, how many at 0 and at 100, and
                        \* the percent of the last one
  providerCore,         \* what HaystackProvider was constructed with:
                        \* "core" or "null"
  searchLog,            \* the calls of HaystackProvider.search and how
                        \* each ended
  stopRequested,        \* shutdown() has issued its stop request
  sinceProbe,           \* processes spawned since the last health probe
  failedSinceSpawn,     \* failed health probes of start() since its last
                        \* spawn
  updateTimeouts,       \* HaystackProvider.updateTimeouts: for each path the
                        \* timer stored under it, 0 when there is no entry
  timers,               \* the update timers set and neither fired nor
                        \* cleared, each with the path it was set for
  updating,             \* the timer callbacks awaiting updateDocument
  updateCalls,          \* calls of updateDocument made by timers, per path
  saves,                \* save events handled so far
  isSearching,          \* the flag of the webview script
  searchInput,          \* the value of the search input of the webview
  toHost,               \* messages posted by the webview, not yet handled
  toView,               \* messages posted to the webview, not yet handled
  handling,             \* invocations of handleSearch awaiting the provider
  handled,              \* invocations of handleSearch so far, each of which
                        \* calls HaystackProvider.search once
  viewPosted,           \* 'search' messages posted by the webview
  viewAnswered,         \* 'searchResults' received that answer one of them
  resultsPosted,        \* 'searchResults' messages posted to the webview
  searchTextCalls,      \* calls of SearchViewProvider.searchText
  userSearches          \* searches asked for by the user in the webview

vars == <<isHaystackSupported, localServer, haystackVersion, requiredTriple,
          _status, _installStatus, _startRetry, pc, events, calls,
          exeExists, unlinkPending, versionReadable, versionFile, fileTriple,
          configWritten, cacheZip, builtinZip, serverUp, elapsedMs,
          gateResult, lastProbe, probeOkSeen, spawns, invProbe1,
          invSpawns, manualSpawns, manualInError, lastPost, lastPostVia,
          listeners, rejected, steps, _downloadProgress, dlSource, hops,
          lastResponse, totalSize, downloadedSize,
          lastReportedPercent, cleanupPending, progressEvents,
          providerCore, searchLog, stopRequested, sinceProbe,
          failedSinceSpawn, updateTimeouts, timers, updating, updateCalls,
          saves, isSearching, searchInput, toHost, toView, handling,
          handled, viewPosted, viewAnswered, resultsPosted,
          searchTextCalls, userSearches>>

\* groups used in UNCHANGED
configVars == <<isHaystackSupported, localServer, haystackVersion,
                requiredTriple>>
diskVars == <<exeExists, unlinkPending, versionReadable, versionFile,
              fileTriple, configWritten, cacheZip, builtinZip, steps>>
dlVars == <<_downloadProgress, dlSource, hops, lastResponse,
            totalSize, downloadedSize, lastReportedPercent, cleanupPending,
            progressEvents>>
searchVars == <<providerCore, searchLog>>
saveVars == <<updateTimeouts, timers, updating, updateCalls, saves>>
viewVars == <<isSearching, searchInput, toHost, toView, handling, handled,
              viewPosted, viewAnswered, resultsPosted, searchTextCalls,
              userSearches>>
uiVars == <<saveVars, viewVars>>
traceVars == <<stopRequested, sinceProbe, failedSinceSpawn>>
startVars == <<lastProbe, probeOkSeen, spawns, invProbe1, invSpawns>>
postVars == <<lastPost, lastPostVia>>
manualVars == <<manualSpawns, manualInError>>


\* ----------------------------------------------------------------- setters
ErrorEvent(msg) ==
  [type |-> "error", old |-> "", new |-> "", seen |-> "", message |-> msg]

\* a plausible slip: the event is emitted without comparing old and new
StatusSetter_NoCompare(cur, new, evs) ==
  [val |-> new,
   evs |-> Append(evs, [type |-> "status-change", old |-> cur, new |-> new,
                        seen |-> new, message |-> ""])
           \o (IF new = "error" THEN <<ErrorEvent("status")>> ELSE <<>>)]

\* a plausible slip: the generic error event is emitted before the change
\* event
StatusSetter_ErrorFirst(cur, new, evs) ==
  IF cur # new
  THEN [val |-> new,
        evs |-> (evs \o (IF new = "error" THEN <<ErrorEvent("status")>>
                         ELSE <<>>))
                \o <<[type |-> "status-change", old |-> cur, new |-> new,
                      seen |-> new, message |-> ""]>>]
  ELSE [val |-> cur, evs |-> evs]

\* set status(newStatus): the new field value and the new event log.
\* seen is the value of the field at the moment the event is emitted.
StatusSetter(cur, new, evs) ==
  IF cur # new
  THEN LET field == new
       IN  [val |-> field,
            evs |-> Append(evs, [type |-> "status-change", old |-> cur,
                                 new |-> new, seen |-> field, message |-> ""])
                    \o (IF new = "error" THEN <<ErrorEvent("status")>>
                        ELSE <<>>)]
  ELSE [val |-> cur, evs |-> evs]

\* set installStatus(newStatus)
InstallStatusSetter(cur, new, evs) ==
  IF cur # new
  THEN LET field == new
       IN  [val |-> field,
            evs |-> Append(evs, [type |-> "install-status-change",
                                 old |-> cur, new |-> new, seen |-> field,
                                 message |-> ""])
                    \o (IF new = "error" THEN <<ErrorEvent("install")>>
                        ELSE <<>>)]
  ELSE [val |-> cur, evs |-> evs]

\* emit('error', ...) of a Node EventEmitter throws when no listener is
\* attached for 'error'; the setters emit it after the field is assigned
EmitThrows(cur, new) ==
  cur # new /\ new = "error" /\ "error" \notin listeners

\* this.status = new, at a call site; every assignment of 'error' to the
\* lifecycle status is outside any try block
SetStatus(new) ==
  LET r == StatusSetter(_status, new, events)
  IN  /\ _status' = r.val
      /\ events' = r.evs
      /\ calls' = Append(calls, [axis |-> "status", before |-> _status,
                                 value |-> new])
      /\ rejected' = (rejected \/ EmitThrows(_status, new))
      /\ UNCHANGED _installStatus

\* this.installStatus = new, at a call site. A throw of the setter inside
\* the try blocks of install() is caught by its outer catch, whose own
\* assignment of 'error' then changes nothing; the assignment in the outer
\* catch itself (reached from the mkdir step) is not protected.
SetInstallStatus(new) ==
  LET r == InstallStatusSetter(_installStatus, new, events)
  IN  /\ _installStatus' = r.val
      /\ events' = r.evs
      /\ calls' = Append(calls, [axis |-> "install", before |-> _installStatus,
                                 value |-> new])
      /\ rejected' = (rejected
                       \/ (pc = "install" /\ EmitThrows(_installStatus, new)))
      /\ UNCHANGED _status

NoSetter == UNCHANGED <<_status, _installStatus, events, calls, rejected>>

\* the download-progress events of an attempt, before the first one
NoProgressEvents == [count |-> 0, at0 |-> 0, at100 |-> 0, last |-> 0]

\* -------------------------------------------------------------------- Init
Parts == (0..MaxPart) \cup {10}
Triples == {<<a, b, c>> : a \in Parts, b \in Parts, c \in Parts}

\* the versions the initialization flow is explored with
FlowRequired == {<<1, 1, 0>>}
FlowInstalled == {<<1, 1, 0>>, <<1, 0, 10>>}

ZipStates == {"absent", "small", "ok"}

\* the relative paths of the documents saved
Paths == {"a.ts", "b.ts"}

\* the fields as the constructor leaves them when it calls doInit()
Constructed ==
  /\ _status = "initializing"
  /\ _installStatus = "initializing"
  /\ _startRetry = 0
  /\ pc = "doInit"
  /\ events = <<>>
  /\ calls = <<>>
  /\ unlinkPending = FALSE
  /\ configWritten = FALSE
  /\ elapsedMs = 0
  /\ gateResult = "none"
  /\ lastProbe = "none"
  /\ probeOkSeen = FALSE
  /\ spawns = 0
  /\ invProbe1 = "none"
  /\ invSpawns = 0
  /\ manualSpawns = 0
  /\ manualInError = FALSE
  /\ lastPost = "none"
  /\ lastPostVia = "none"
  /\ listeners = {}
  /\ rejected = FALSE
  /\ steps = <<>>
  /\ _downloadProgress = [url |-> <<>>, totalSize |-> 0,
                          downloadedSize |-> 0, percent |-> 0]
  /\ dlSource = "none"
  /\ hops = 0
  /\ lastResponse = "none"
  /\ totalSize = 0
  /\ downloadedSize = 0
  /\ lastReportedPercent = 0
  /\ cleanupPending = FALSE
  /\ progressEvents = NoProgressEvents
  /\ searchLog = <<>>
  /\ stopRequested = FALSE
  /\ sinceProbe = 0
  /\ failedSinceSpawn = 0
  /\ updateTimeouts = [p \in Paths |-> 0]
  /\ timers = {}
  /\ updating = {}
  /\ updateCalls = [p \in Paths |-> 0]
  /\ saves = 0
  /\ isSearching = FALSE
  /\ searchInput = ""
  /\ toHost = <<>>
  /\ toView = <<>>
  /\ handling = {}
  /\ handled = 0
  /\ viewPosted = 0
  /\ viewAnswered = 0
  /\ resultsPosted = 0
  /\ searchTextCalls = 0
  /\ userSearches = 0

Init ==
  /\ Constructed
  /\ providerCore = "core"
  /\ isHaystackSupported \in BOOLEAN
  /\ localServer \in BOOLEAN
  /\ requiredTriple \in FlowRequired
  /\ haystackVersion = <<"v">> \o Fmt(requiredTriple)
  /\ exeExists \in BOOLEAN
  /\ versionReadable \in BOOLEAN
  /\ IF versionReadable
     THEN /\ fileTriple \in FlowInstalled
          /\ versionFile = <<"v">> \o Fmt(fileTriple)
     ELSE /\ fileTriple = <<0, 0, 0>>
          /\ versionFile = <<>>
  /\ cacheZip \in ZipStates
  /\ builtinZip \in ZipStates
  /\ serverUp \in BOOLEAN

\* ------------------------------------------------------------------ doInit
\* a plausible slip: the two assignments in the other order
DoInitUnsupported_InstallFirst ==
  /\ pc = "doInit"
  /\ ~isHaystackSupported
  /\ SetInstallStatus("unsupported")
  /\ pc' = "doInit_unsupported"
  /\ UNCHANGED <<configVars, searchVars, uiVars, traceVars, listeners, dlVars,
                 diskVars, startVars, postVars, manualVars, _startRetry,
                 serverUp, elapsedMs, gateResult>>

\* doInit, unsupported platform: this.status = 'unsupported'
DoInitUnsupported ==
  /\ pc = "doInit"
  /\ ~isHaystackSupported
  /\ SetStatus("unsupported")
  /\ pc' = "doInit_unsupported"
  /\ UNCHANGED <<configVars, searchVars, uiVars, traceVars, listeners, dlVars,
                 diskVars, startVars, postVars, manualVars, _startRetry,
                 serverUp, elapsedMs, gateResult>>

\* doInit, unsupported platform: this.installStatus = 'unsupported'; return
DoInitUnsupportedInstall ==
  /\ pc = "doInit_unsupported"
  /\ SetInstallStatus("unsupported")
  /\ pc' = "done"
  /\ UNCHANGED <<configVars, searchVars, uiVars, traceVars, listeners, dlVars,
                 diskVars, startVars, postVars, manualVars, _startRetry,
                 serverUp, elapsedMs, gateResult>>

\* doInit, not running locally: this.status = 'running'; return
DoInitRemote ==
  /\ pc = "doInit"
  /\ isHaystackSupported
  /\ ~localServer
  /\ SetStatus("running")
  /\ pc' = "done"
  /\ UNCHANGED <<configVars, searchVars, uiVars, traceVars, listeners, dlVars,
                 diskVars, startVars, postVars, manualVars, _startRetry,
                 serverUp, elapsedMs, gateResult>>

\* doInit, local mode: up to await fs.promises.mkdir(this.binDir)
DoInitLocal ==
  /\ pc = "doInit"
  /\ isHaystackSupported
  /\ localServer
  /\ pc' = "doInit_presence"
  /\ NoSetter
  /\ UNCHANGED <<configVars, searchVars, uiVars, traceVars, listeners, dlVars,
                 diskVars, startVars, postVars, manualVars, _startRetry,
                 serverUp, elapsedMs, gateResult>>

\* the events SearchViewProvider's constructor subscribes to
RegisteredEvents_NoError ==
  {"status-change", "install-status-change", "download-progress", "starting"}

RegisteredEvents ==
  {"status-change", "install-status-change", "download-progress", "error",
   "starting"}

\* activate(): new Haystack(...) has returned, with doInit() run up to its
\* first await; new SearchViewProvider(...) attaches its listeners
AttachListeners ==
  /\ pc \notin {"doInit", "doInit_unsupported"}
  /\ listeners = {}
  /\ listeners' = RegisteredEvents
  /\ NoSetter
  /\ UNCHANGED <<configVars, searchVars, uiVars, traceVars, dlVars, diskVars,
                 startVars, postVars, manualVars, _startRetry, pc, serverUp,
                 elapsedMs, gateResult>>

\* doInit: mkdir and access of the executable, then the presence verdict;
\* the continuation of the first await runs after activate() has returned
DoInitPresence ==
  /\ pc = "doInit_presence"
  /\ listeners # {}
  /\ \E mkdirOk \in BOOLEAN :
       IF mkdirOk /\ exeExists
       THEN /\ SetInstallStatus("installed")
            /\ pc' = "checkIsCompatibleVersion"
       ELSE /\ SetInstallStatus("not-installed")
            /\ pc' = "install"
  /\ UNCHANGED <<configVars, searchVars, uiVars, traceVars, listeners, dlVars,
                 diskVars, startVars, postVars, manualVars, _startRetry,
                 serverUp, elapsedMs, gateResult>>

\* ------------------------------------------------ checkIsCompatibleVersion
\* a plausible slip: the incompatible branch also removes version.txt
CheckIsCompatibleVersion_DeletesMarker ==
  /\ pc = "checkIsCompatibleVersion"
  /\ IF ~versionReadable
     THEN /\ gateResult' = "unreadable"
          /\ pc' = "shutdown"
          /\ NoSetter
          /\ UNCHANGED <<unlinkPending, versionReadable, versionFile,
                         fileTriple>>
     ELSE IF isVersionCompatible(versionFile, haystackVersion)
     THEN /\ gateResult' = "compatible"
          /\ pc' = "doInit_final"
          /\ NoSetter
          /\ UNCHANGED <<unlinkPending, versionReadable, versionFile,
                         fileTriple>>
     ELSE /\ gateResult' = "incompatible"
          /\ unlinkPending' = TRUE
          /\ versionReadable' = FALSE
          /\ versionFile' = <<>>
          /\ fileTriple' = <<0, 0, 0>>
          /\ SetInstallStatus("not-installed")
          /\ pc' = "install"
  /\ UNCHANGED <<configVars, searchVars, uiVars, traceVars, listeners,
                 dlVars, steps,
                 exeExists, configWritten, cacheZip, builtinZip, startVars,
                 postVars, manualVars, _startRetry, serverUp, elapsedMs>>

\* readFile of version.txt and the verdict of isVersionCompatible
CheckIsCompatibleVersion ==
  /\ pc = "checkIsCompatibleVersion"
  /\ IF ~versionReadable
     THEN /\ gateResult' = "unreadable"
          /\ pc' = "shutdown"
          /\ NoSetter
          /\ UNCHANGED unlinkPending
     ELSE IF isVersionCompatible(versionFile, haystackVersion)
     THEN /\ gateResult' = "compatible"
          /\ pc' = "doInit_final"
          /\ NoSetter
          /\ UNCHANGED unlinkPending
     ELSE /\ gateResult' = "incompatible"
          /\ unlinkPending' = TRUE
          /\ SetInstallStatus("not-installed")
          /\ pc' = "install"
  /\ UNCHANGED <<configVars, searchVars, uiVars, traceVars, listeners,
                 dlVars, steps,
                 exeExists, versionReadable, versionFile, fileTriple,
                 configWritten, cacheZip, builtinZip, startVars, postVars,
                 manualVars, _startRetry, serverUp, elapsedMs>>

\* shutdown: axios.post(stop); a failure is swallowed and shutdown returns
Shutdown ==
  /\ pc = "shutdown"
  /\ IF serverUp
     THEN /\ pc' = "waitingForShutdown"
          /\ elapsedMs' = 0
     ELSE /\ pc' = "gate_unlink"
          /\ UNCHANGED elapsedMs
  /\ NoSetter
  /\ stopRequested' = TRUE
  /\ UNCHANGED <<sinceProbe, failedSinceSpawn>>
  /\ UNCHANGED <<configVars, searchVars, uiVars, listeners, dlVars, diskVars,
                 startVars, postVars, manualVars, _startRetry, serverUp,
                 gateResult>>

\* the time one status probe takes: none, or as long as the sleep
ProbeLatencies == {0, PollIntervalMs}

\* a plausible slip: the start time is taken anew in every turn
WaitingForShutdown_ClockRestarts ==
  /\ pc = "waitingForShutdown"
  /\ IF ~serverUp
     THEN pc' = "shutdown_done"
     ELSE UNCHANGED pc
  /\ elapsedMs' = 0
  /\ NoSetter
  /\ UNCHANGED <<configVars, searchVars, uiVars, traceVars, listeners, dlVars,
                 diskVars, startVars, postVars, manualVars, _startRetry,
                 serverUp, gateResult>>

\* waitingForShutdown: one turn of the polling loop; the clock has advanced
\* by the probe and the sleep when the next turn reads it
WaitingForShutdown ==
  /\ pc = "waitingForShutdown"
  /\ IF elapsedMs > ShutdownTimeoutMs
     THEN /\ pc' = "shutdown_done"
          /\ elapsedMs' = 0
     ELSE IF ~serverUp
     THEN /\ pc' = "shutdown_done"
          /\ elapsedMs' = 0
     ELSE /\ \E lat \in ProbeLatencies :
               elapsedMs' = elapsedMs + lat + PollIntervalMs
          /\ UNCHANGED pc
  /\ NoSetter
  /\ UNCHANGED <<configVars, searchVars, uiVars, traceVars, listeners, dlVars,
                 diskVars, startVars, postVars, manualVars, _startRetry,
                 serverUp, gateResult>>

\* shutdown, after the wait: this.status = 'initializing'
ShutdownDone ==
  /\ pc = "shutdown_done"
  /\ SetStatus("initializing")
  /\ pc' = "gate_unlink"
  /\ UNCHANGED <<configVars, searchVars, uiVars, traceVars, listeners, dlVars,
                 diskVars, startVars, postVars, manualVars, _startRetry,
                 serverUp, elapsedMs, gateResult>>

\* a plausible slip: the gate reports the missing marker as a failure
GateUnlink_Error ==
  /\ pc = "gate_unlink"
  /\ unlinkPending' = TRUE
  /\ SetInstallStatus("error")
  /\ pc' = "install"
  /\ UNCHANGED <<configVars, searchVars, uiVars, traceVars, listeners,
                 dlVars, steps,
                 exeExists, versionReadable, versionFile, fileTriple,
                 configWritten, cacheZip, builtinZip, startVars, postVars,
                 manualVars, _startRetry, serverUp, elapsedMs, gateResult>>

\* checkIsCompatibleVersion after shutdown: unlink (not awaited), then
\* this.installStatus = 'not-installed'
GateUnlink ==
  /\ pc = "gate_unlink"
  /\ unlinkPending' = TRUE
  /\ SetInstallStatus("not-installed")
  /\ pc' = "install"
  /\ UNCHANGED <<configVars, searchVars, uiVars, traceVars, listeners,
                 dlVars, steps,
                 exeExists, versionReadable, versionFile, fileTriple,
                 configWritten, cacheZip, builtinZip, startVars, postVars,
                 manualVars, _startRetry, serverUp, elapsedMs, gateResult>>


\* ----------------------------------------------------------------- install
WriteOutcomes == {"none", "version", "both"}

\* extractZip then writeVersionAndConf: what they leave on disk.
\* extractOk: extractAllTo and chmod succeeded; w: how far the writes got.
ExtractAndWrite(extractOk, w) ==
  /\ exeExists' = (exeExists \/ extractOk)
  /\ IF extractOk /\ w # "none"
     THEN /\ versionReadable' = TRUE
          /\ versionFile' = haystackVersion
          /\ fileTriple' = requiredTriple
     ELSE UNCHANGED <<versionReadable, versionFile, fileTriple>>
  /\ configWritten' = (configWritten \/ (extractOk /\ w = "both"))

\* a plausible slip: the source installs once the marker is written
SourceInstalled_MarkerOnly(extractOk, w) == extractOk /\ w # "none"

\* the source installed: extraction and both writes went through
SourceInstalled(extractOk, w) == extractOk /\ w = "both"

\* one entry of the log of acquisition steps: the source tried, what was
\* found there, whether extractZip went through, whether it installed
Step(src, found, extractOk, installed) ==
  [src |-> src, found |-> found, extracted |-> extractOk,
   installed |-> installed]

\* install: mkdir of the download directory; when it fails the outer catch
\* assigns 'error', and a throw of that assignment leaves install() and
\* doInit()
Install ==
  /\ pc = "install"
  /\ \E mkdirOk \in BOOLEAN :
       IF mkdirOk
       THEN /\ pc' = "install_cached"
            /\ NoSetter
       ELSE /\ SetInstallStatus("error")
            /\ pc' = IF EmitThrows(_installStatus, "error")
                     THEN "done" ELSE "doInit_final"
  /\ UNCHANGED <<configVars, searchVars, uiVars, traceVars, listeners, dlVars,
                 diskVars, startVars, postVars, manualVars, _startRetry,
                 serverUp, elapsedMs, gateResult>>

\* a plausible slip: checkExistingZip(downloadedZipPath, false)
InstallCached_KeepSmall ==
  /\ pc = "install_cached"
  /\ cacheZip = "small"
  /\ steps' = Append(steps, Step("cached", "small", FALSE, FALSE))
  /\ pc' = "install_builtin"
  /\ NoSetter
  /\ UNCHANGED <<configVars, searchVars, uiVars, traceVars, listeners, dlVars,
                 exeExists, versionReadable, versionFile, fileTriple,
                 configWritten, cacheZip, unlinkPending, builtinZip,
                 startVars, postVars, manualVars, _startRetry, serverUp,
                 elapsedMs, gateResult>>

\* a plausible slip: the return after the cached archive installed is
\* missing
InstallCached_NoReturn ==
  /\ pc = "install_cached"
  /\ \/ /\ cacheZip # "ok"
        /\ cacheZip' = "absent"
        /\ steps' = Append(steps, Step("cached", cacheZip, FALSE, FALSE))
        /\ NoSetter
        /\ UNCHANGED <<exeExists, versionReadable, versionFile, fileTriple,
                       configWritten>>
     \/ /\ cacheZip = "ok"
        /\ \E extractOk \in BOOLEAN, w \in WriteOutcomes :
             /\ ExtractAndWrite(extractOk, w)
             /\ steps' = Append(steps, Step("cached", "ok", extractOk,
                                            SourceInstalled(extractOk, w)))
             /\ IF SourceInstalled(extractOk, w)
                THEN SetInstallStatus("installed")
                ELSE NoSetter
        /\ UNCHANGED cacheZip
  /\ pc' = "install_builtin"
  /\ UNCHANGED <<configVars, searchVars, uiVars, traceVars, listeners, dlVars,
                 unlinkPending, builtinZip, startVars, postVars, manualVars,
                 _startRetry, serverUp, elapsedMs, gateResult>>

\* install step 1: the archive in the download directory;
\* checkExistingZip(downloadedZipPath, true) unlinks an archive under 1 MiB
InstallCached ==
  /\ pc = "install_cached"
  /\ \/ /\ cacheZip = "absent"
        /\ steps' = Append(steps, Step("cached", "absent", FALSE, FALSE))
        /\ pc' = "install_builtin"
        /\ NoSetter
        /\ UNCHANGED <<exeExists, versionReadable, versionFile, fileTriple,
                       configWritten, cacheZip>>
     \/ /\ cacheZip = "small"
        /\ cacheZip' = "absent"
        /\ steps' = Append(steps, Step("cached", "small", FALSE, FALSE))
        /\ pc' = "install_builtin"
        /\ NoSetter
        /\ UNCHANGED <<exeExists, versionReadable, versionFile, fileTriple,
                       configWritten>>
     \/ /\ cacheZip = "ok"
        /\ \E extractOk \in BOOLEAN, w \in WriteOutcomes :
             /\ ExtractAndWrite(extractOk, w)
             /\ steps' = Append(steps, Step("cached", "ok", extractOk,
                                            SourceInstalled(extractOk, w)))
             /\ IF SourceInstalled(extractOk, w)
                THEN /\ SetInstallStatus("installed")
                     /\ pc' = "doInit_final"
                ELSE /\ NoSetter
                     /\ pc' = "install_builtin"
        /\ UNCHANGED cacheZip
  /\ UNCHANGED <<configVars, searchVars, uiVars, traceVars, listeners, dlVars,
                 unlinkPending, builtinZip, startVars, postVars, manualVars,
                 _startRetry, serverUp, elapsedMs, gateResult>>

\* install step 2: the archive shipped with the extension,
\* checkExistingZip(builtinZipFilePath, false); when it fails, step 3 begins
\* with this.installStatus = 'downloading'
InstallBuiltin ==
  /\ pc = "install_builtin"
  /\ \/ /\ builtinZip # "ok"
        /\ steps' = Append(steps, Step("builtin", builtinZip, FALSE, FALSE))
        /\ SetInstallStatus("downloading")
        /\ pc' = "install_primary"
        /\ UNCHANGED <<exeExists, versionReadable, versionFile, fileTriple,
                       configWritten>>
     \/ /\ builtinZip = "ok"
        /\ \E extractOk \in BOOLEAN, w \in WriteOutcomes :
             /\ ExtractAndWrite(extractOk, w)
             /\ steps' = Append(steps, Step("builtin", "ok", extractOk,
                                            SourceInstalled(extractOk, w)))
             /\ IF SourceInstalled(extractOk, w)
                THEN /\ SetInstallStatus("installed")
                     /\ pc' = "doInit_final"
                ELSE /\ SetInstallStatus("downloading")
                     /\ pc' = "install_primary"
  /\ UNCHANGED <<configVars, searchVars, uiVars, traceVars, listeners, dlVars,
                 unlinkPending, cacheZip, builtinZip, startVars, postVars,
                 manualVars, _startRetry, serverUp, elapsedMs, gateResult>>

\* install step 3 with downloadFile taken as one step: download from the
\* primary URL, extract, write
InstallPrimary ==
  /\ pc = "install_primary"
  /\ \E dlOk \in BOOLEAN, extractOk \in BOOLEAN, w \in WriteOutcomes :
       IF dlOk
       THEN /\ cacheZip' = "ok"
            /\ ExtractAndWrite(extractOk, w)
            /\ steps' = Append(steps, Step("primary", "downloaded", extractOk,
                                           SourceInstalled(extractOk, w)))
            /\ IF SourceInstalled(extractOk, w)
               THEN /\ SetInstallStatus("installed")
                    /\ pc' = "doInit_final"
               ELSE /\ NoSetter
                    /\ pc' = "install_fallback"
       ELSE /\ cacheZip' = "absent"
            /\ steps' = Append(steps, Step("primary", "failed", FALSE, FALSE))
            /\ NoSetter
            /\ pc' = "install_fallback"
            /\ UNCHANGED <<exeExists, versionReadable, versionFile,
                           fileTriple, configWritten>>
  /\ UNCHANGED <<configVars, searchVars, uiVars, traceVars, listeners, dlVars,
                 unlinkPending, builtinZip, startVars, postVars, manualVars,
                 _startRetry, serverUp, elapsedMs, gateResult>>

\* a plausible slip: a failed fallback puts the status back to not-installed
InstallFallback_BackToNotInstalled ==
  /\ pc = "install_fallback"
  /\ cacheZip' = "absent"
  /\ steps' = Append(steps, Step("fallback", "failed", FALSE, FALSE))
  /\ SetInstallStatus("not-installed")
  /\ pc' = "doInit_final"
  /\ UNCHANGED <<configVars, searchVars, uiVars, traceVars, listeners, dlVars,
                 exeExists, versionReadable, versionFile, fileTriple,
                 configWritten, unlinkPending, builtinZip, startVars,
                 postVars, manualVars, _startRetry, serverUp, elapsedMs,
                 gateResult>>

\* install step 4 with downloadFile taken as one step: download from the
\* fallback URL, extract, write; its catch assigns 'error'
InstallFallback ==
  /\ pc = "install_fallback"
  /\ \E dlOk \in BOOLEAN, extractOk \in BOOLEAN, w \in WriteOutcomes :
       IF dlOk
       THEN /\ cacheZip' = "ok"
            /\ ExtractAndWrite(extractOk, w)
            /\ steps' = Append(steps, Step("fallback", "downloaded",
                                           extractOk,
                                           SourceInstalled(extractOk, w)))
            /\ IF SourceInstalled(extractOk, w)
               THEN SetInstallStatus("installed")
               ELSE SetInstallStatus("error")
       ELSE /\ cacheZip' = "absent"
            /\ steps' = Append(steps, Step("fallback", "failed", FALSE,
                                           FALSE))
            /\ SetInstallStatus("error")
            /\ UNCHANGED <<exeExists, versionReadable, versionFile,
                           fileTriple, configWritten>>
  /\ pc' = "doInit_final"
  /\ UNCHANGED <<configVars, searchVars, uiVars, traceVars, listeners, dlVars,
                 unlinkPending, builtinZip, startVars, postVars, manualVars,
                 _startRetry, serverUp, elapsedMs, gateResult>>

\* ------------------------------------------------------------ downloadFile
\* emit('download-progress', rec) added to the events of the attempt
Emitted(pe, rec) ==
  [count |-> pe.count + 1,
   at0 |-> pe.at0 + (IF rec.percent = 0 THEN 1 ELSE 0),
   at100 |-> pe.at100 + (IF rec.percent = 100 THEN 1 ELSE 0),
   last |-> rec.percent]

\* Math.floor((downloadedSize / totalSize) * 100); for the sizes explored
\* the floating-point quotient and the integer one have the same floor
Percent(downloaded, total) == (downloaded * 100) \div total

\* a plausible slip: the record of the previous attempt is kept
BeginDownload_KeepRecord(url) ==
  /\ _downloadProgress' = [_downloadProgress EXCEPT !.url = url]
  /\ progressEvents' = Emitted(NoProgressEvents, _downloadProgress)
  /\ cacheZip' = "partial"
  /\ totalSize' = 0
  /\ downloadedSize' = 0
  /\ lastReportedPercent' = 0
  /\ pc' = "dl_request"

\* downloadFile(url, destination) up to client.get: the record is reset and
\* emitted, createWriteStream creates the file at the cache path
BeginDownload(url) ==
  LET rec == [url |-> url, totalSize |-> 0, downloadedSize |-> 0,
              percent |-> 0]
  IN  /\ _downloadProgress' = rec
      /\ progressEvents' = Emitted(NoProgressEvents, rec)
      /\ cacheZip' = "partial"
      /\ totalSize' = 0
      /\ downloadedSize' = 0
      /\ lastReportedPercent' = 0
      /\ pc' = "dl_request"

\* install steps 3 and 4: await this.downloadFile(url, downloadedZipPath)
DownloadStart ==
  /\ pc \in {"install_primary", "install_fallback"}
  /\ dlSource' = (IF pc = "install_primary" THEN "primary" ELSE "fallback")
  /\ hops' = 0
  /\ BeginDownload(<<dlSource', 0>>)
  /\ NoSetter
  /\ UNCHANGED <<configVars, searchVars, uiVars, traceVars, listeners, steps,
                 lastResponse, cleanupPending, exeExists, unlinkPending,
                 versionReadable, versionFile, fileTriple, configWritten,
                 builtinZip, startVars, postVars, manualVars, _startRetry,
                 serverUp, elapsedMs, gateResult>>

Responses ==
  {"200_length", "200_nolength", "3xx_location", "3xx", "404",
   "transport_error"}

\* a plausible slip: redirects are followed up to a number of hops only
FollowsRedirect_Capped(h) == h < MaxHops

\* the test that sends a 3xx answer with a target to the redirect branch:
\* status code and location header, nothing about the hops made so far
FollowsRedirect(h) == TRUE

\* the callback of client.get, or the 'error' event of the request, for an
\* answer out of rs
DownloadResponseOf(rs) ==
  /\ pc = "dl_request"
  /\ \E r \in rs :
       /\ lastResponse' = r
       /\ CASE r = "3xx_location" /\ FollowsRedirect(hops) ->
                 /\ pc' = "dl_redirect_unlink"
                 /\ UNCHANGED <<_downloadProgress, progressEvents, totalSize,
                                cleanupPending, events>>
            [] r \in {"3xx", "404"}
               \/ (r = "3xx_location" /\ ~FollowsRedirect(hops)) ->
                 /\ cleanupPending' = TRUE
                 /\ pc' = "dl_failed"
                 /\ UNCHANGED <<_downloadProgress, progressEvents, totalSize,
                                events>>
            [] r = "transport_error" ->
                 /\ cleanupPending' = TRUE
                 /\ events' = Append(events, ErrorEvent("download"))
                 /\ pc' = IF "error" \in listeners THEN "dl_failed"
                          ELSE "dl_hung"
                 /\ UNCHANGED <<_downloadProgress, progressEvents, totalSize>>
            [] OTHER ->
                 LET total == IF r = "200_length" THEN BodySize ELSE 0
                     rec == [url |-> _downloadProgress.url,
                             totalSize |-> total, downloadedSize |-> 0,
                             percent |-> 0]
                 IN  /\ totalSize' = total
                     /\ _downloadProgress' = rec
                     /\ progressEvents' = Emitted(progressEvents, rec)
                     /\ pc' = "dl_body"
                     /\ UNCHANGED <<cleanupPending, events>>
  /\ UNCHANGED <<configVars, searchVars, uiVars, traceVars, listeners, diskVars,
                 dlSource, hops, downloadedSize, lastReportedPercent,
                 startVars, postVars, manualVars, _status, _installStatus,
                 calls, rejected, _startRetry, serverUp, elapsedMs,
                 gateResult>>

\* the remote may answer in any of the ways
DownloadResponse == DownloadResponseOf(Responses)

\* a remote that answers every request with a 3xx and a redirect target
DownloadRedirecting == DownloadResponseOf({"3xx_location"})

\* a plausible slip: the request is reissued without the unlink
DownloadRedirectUnlinked_NoDelete ==
  /\ pc = "dl_redirect_unlink"
  /\ pc' = "dl_redirect"
  /\ NoSetter
  /\ UNCHANGED <<configVars, searchVars, uiVars, traceVars, listeners, dlVars,
                 diskVars, startVars, postVars, manualVars, _startRetry,
                 serverUp, elapsedMs, gateResult>>

\* redirect: file.close(); fs.unlink(destination, ...) completes
DownloadRedirectUnlinked ==
  /\ pc = "dl_redirect_unlink"
  /\ cacheZip' = "absent"
  /\ pc' = "dl_redirect"
  /\ NoSetter
  /\ UNCHANGED <<configVars, searchVars, uiVars, traceVars, listeners,
                 dlVars, steps,
                 exeExists, unlinkPending, versionReadable, versionFile,
                 fileTriple, configWritten, builtinZip, startVars, postVars,
                 manualVars, _startRetry, serverUp, elapsedMs, gateResult>>

\* redirect, the callback of the unlink:
\* this.downloadFile(response.headers.location, destination); hops counts
\* the redirects followed up to MaxHops, and stays there for the later ones
DownloadRedirect ==
  /\ pc = "dl_redirect"
  /\ hops' = (IF hops < MaxHops THEN hops + 1 ELSE hops)
  /\ BeginDownload(<<dlSource, hops'>>)
  /\ NoSetter
  /\ UNCHANGED <<configVars, searchVars, uiVars, traceVars, listeners, steps,
                 dlSource, lastResponse, cleanupPending, exeExists,
                 unlinkPending, versionReadable, versionFile, fileTriple,
                 configWritten, builtinZip, startVars, postVars, manualVars,
                 _startRetry, serverUp, elapsedMs, gateResult>>

\* a plausible slip: an event for every rise of the percent
DownloadData_EveryRise ==
  /\ pc = "dl_body"
  /\ downloadedSize < BodySize
  /\ \E n \in 1..MaxChunk :
       /\ n <= BodySize - downloadedSize
       /\ LET d == downloadedSize + n
              rec == IF totalSize > 0
                     THEN [url |-> _downloadProgress.url,
                           totalSize |-> totalSize, downloadedSize |-> d,
                           percent |-> Percent(d, totalSize)]
                     ELSE _downloadProgress
              emit == rec.percent > lastReportedPercent
          IN  /\ downloadedSize' = d
              /\ _downloadProgress' = rec
              /\ progressEvents' = IF emit THEN Emitted(progressEvents, rec)
                                   ELSE progressEvents
              /\ lastReportedPercent' = IF emit THEN rec.percent
                                        ELSE lastReportedPercent
  /\ NoSetter
  /\ UNCHANGED <<configVars, searchVars, uiVars, traceVars, listeners, diskVars,
                 dlSource, hops, lastResponse, totalSize, cleanupPending, pc,
                 startVars, postVars, manualVars, _startRetry, serverUp,
                 elapsedMs, gateResult>>

\* response.on('data', chunk)
DownloadData ==
  /\ pc = "dl_body"
  /\ downloadedSize < BodySize
  /\ \E n \in 1..MaxChunk :
       /\ n <= BodySize - downloadedSize
       /\ LET d == downloadedSize + n
              rec == IF totalSize > 0
                     THEN [url |-> _downloadProgress.url,
                           totalSize |-> totalSize, downloadedSize |-> d,
                           percent |-> Percent(d, totalSize)]
                     ELSE _downloadProgress
              emit == \/ rec.percent >= lastReportedPercent + ReportStep
                      \/ rec.percent = 100
          IN  /\ downloadedSize' = d
              /\ _downloadProgress' = rec
              /\ progressEvents' = IF emit THEN Emitted(progressEvents, rec)
                                   ELSE progressEvents
              /\ lastReportedPercent' = IF emit THEN rec.percent
                                        ELSE lastReportedPercent
  /\ NoSetter
  /\ UNCHANGED <<configVars, searchVars, uiVars, traceVars, listeners, diskVars,
                 dlSource, hops, lastResponse, totalSize, cleanupPending, pc,
                 startVars, postVars, manualVars, _startRetry, serverUp,
                 elapsedMs, gateResult>>

\* a plausible slip: the handler of the file error leaves the file behind
DownloadFileError_NoUnlink ==
  /\ pc = "dl_body"
  /\ events' = Append(events, ErrorEvent("file"))
  /\ pc' = IF "error" \in listeners THEN "dl_failed" ELSE "dl_hung"
  /\ totalSize' = 0
  /\ downloadedSize' = 0
  /\ lastReportedPercent' = 0
  /\ UNCHANGED <<configVars, searchVars, uiVars, traceVars, listeners, diskVars,
                 _downloadProgress, dlSource, hops, lastResponse,
                 cleanupPending, progressEvents, startVars, postVars,
                 manualVars, _status, _installStatus, calls, rejected,
                 _startRetry, serverUp, elapsedMs, gateResult>>

\* file.on('error'): close, unlink (not awaited), emit('error'), reject
DownloadFileError ==
  /\ pc = "dl_body"
  /\ cleanupPending' = TRUE
  /\ events' = Append(events, ErrorEvent("file"))
  /\ pc' = IF "error" \in listeners THEN "dl_failed" ELSE "dl_hung"
  /\ totalSize' = 0
  /\ downloadedSize' = 0
  /\ lastReportedPercent' = 0
  /\ UNCHANGED <<configVars, searchVars, uiVars, traceVars, listeners, diskVars,
                 _downloadProgress, dlSource, hops, lastResponse,
                 progressEvents, startVars, postVars, manualVars, _status,
                 _installStatus, calls, rejected, _startRetry, serverUp,
                 elapsedMs, gateResult>>

\* a plausible slip: no event on 'finish'
DownloadFinish_NoEmit ==
  /\ pc = "dl_body"
  /\ downloadedSize = BodySize
  /\ _downloadProgress' = [url |-> _downloadProgress.url,
                           totalSize |-> totalSize,
                           downloadedSize |-> downloadedSize,
                           percent |-> 100]
  /\ cacheZip' = (IF cacheZip = "partial" THEN "ok" ELSE cacheZip)
  /\ totalSize' = 0
  /\ downloadedSize' = 0
  /\ lastReportedPercent' = 0
  /\ pc' = "dl_done"
  /\ NoSetter
  /\ UNCHANGED <<configVars, searchVars, uiVars, traceVars, listeners, steps,
                 dlSource, hops, lastResponse, cleanupPending,
                 progressEvents, exeExists, unlinkPending, versionReadable,
                 versionFile, fileTriple, configWritten, builtinZip,
                 startVars, postVars, manualVars, _startRetry, serverUp,
                 elapsedMs, gateResult>>

\* file.on('finish'): close, the record at percent 100, emit, resolve
DownloadFinish ==
  /\ pc = "dl_body"
  /\ downloadedSize = BodySize
  /\ LET rec == [url |-> _downloadProgress.url, totalSize |-> totalSize,
                 downloadedSize |-> downloadedSize, percent |-> 100]
     IN  /\ _downloadProgress' = rec
         /\ progressEvents' = Emitted(progressEvents, rec)
  /\ cacheZip' = (IF cacheZip = "partial" THEN "ok" ELSE cacheZip)
  /\ totalSize' = 0
  /\ downloadedSize' = 0
  /\ lastReportedPercent' = 0
  /\ pc' = "dl_done"
  /\ NoSetter
  /\ UNCHANGED <<configVars, searchVars, uiVars, traceVars, listeners, steps,
                 dlSource, hops, lastResponse, cleanupPending, exeExists,
                 unlinkPending, versionReadable, versionFile, fileTriple,
                 configWritten, builtinZip, startVars, postVars, manualVars,
                 _startRetry, serverUp, elapsedMs, gateResult>>

\* install steps 3 and 4 after downloadFile resolved: extractZip and
\* writeVersionAndConf; extractZip fails when no archive is at the path
DownloadSucceeded ==
  /\ pc = "dl_done"
  /\ \E extractOk \in BOOLEAN, w \in WriteOutcomes :
       LET ok == extractOk /\ cacheZip = "ok"
       IN  /\ ExtractAndWrite(ok, w)
           /\ steps' = Append(steps, Step(dlSource, "downloaded", ok,
                                          SourceInstalled(ok, w)))
           /\ IF SourceInstalled(ok, w)
              THEN /\ SetInstallStatus("installed")
                   /\ pc' = "doInit_final"
              ELSE IF dlSource = "primary"
              THEN /\ NoSetter
                   /\ pc' = "install_fallback"
              ELSE /\ SetInstallStatus("error")
                   /\ pc' = "doInit_final"
  /\ dlSource' = "none"
  /\ hops' = 0
  /\ lastResponse' = "none"
  /\ UNCHANGED <<configVars, searchVars, uiVars, traceVars, listeners,
                 _downloadProgress, totalSize, downloadedSize,
                 lastReportedPercent, cleanupPending, progressEvents,
                 unlinkPending, cacheZip, builtinZip, startVars, postVars,
                 manualVars, _startRetry, serverUp, elapsedMs, gateResult>>

\* a plausible slip: a failed primary download puts the install status
\* back before the fallback is tried
DownloadFailed_StatusBack ==
  /\ pc = "dl_failed"
  /\ steps' = Append(steps, Step(dlSource, "failed", FALSE, FALSE))
  /\ IF dlSource = "primary"
     THEN /\ SetInstallStatus("not-installed")
          /\ pc' = "install_fallback"
     ELSE /\ SetInstallStatus("error")
          /\ pc' = "doInit_final"
  /\ dlSource' = "none"
  /\ hops' = 0
  /\ lastResponse' = "none"
  /\ UNCHANGED <<configVars, searchVars, uiVars, traceVars, listeners,
                 _downloadProgress, totalSize, downloadedSize,
                 lastReportedPercent, cleanupPending, progressEvents,
                 exeExists, unlinkPending, versionReadable, versionFile,
                 fileTriple, configWritten, cacheZip, builtinZip, startVars,
                 postVars, manualVars, _startRetry, serverUp, elapsedMs,
                 gateResult>>

\* install steps 3 and 4 after downloadFile rejected
DownloadFailed ==
  /\ pc = "dl_failed"
  /\ steps' = Append(steps, Step(dlSource, "failed", FALSE, FALSE))
  /\ IF dlSource = "primary"
     THEN /\ NoSetter
          /\ pc' = "install_fallback"
     ELSE /\ SetInstallStatus("error")
          /\ pc' = "doInit_final"
  /\ dlSource' = "none"
  /\ hops' = 0
  /\ lastResponse' = "none"
  /\ UNCHANGED <<configVars, searchVars, uiVars, traceVars, listeners,
                 _downloadProgress, totalSize, downloadedSize,
                 lastReportedPercent, cleanupPending, progressEvents,
                 exeExists, unlinkPending, versionReadable, versionFile,
                 fileTriple, configWritten, cacheZip, builtinZip, startVars,
                 postVars, manualVars, _startRetry, serverUp, elapsedMs,
                 gateResult>>

\* the fs.unlink(destination, () => {}) of a failed attempt completes: it
\* removes whatever is at the cache path by then
CleanupUnlink ==
  /\ cleanupPending
  /\ cleanupPending' = FALSE
  /\ cacheZip' = "absent"
  /\ NoSetter
  /\ UNCHANGED <<configVars, searchVars, uiVars, traceVars, listeners, steps,
                 _downloadProgress, dlSource, hops, lastResponse, totalSize,
                 downloadedSize, lastReportedPercent, progressEvents,
                 exeExists, unlinkPending, versionReadable, versionFile,
                 fileTriple, configWritten, builtinZip, startVars, postVars,
                 manualVars, _startRetry, pc, serverUp, elapsedMs,
                 gateResult>>

\* ------------------------------------------------------- doInit, last part
\* a plausible slip: the start sequence begins whatever the install status
DoInitFinal_NoInstallCheck ==
  /\ pc = "doInit_final"
  /\ SetStatus("starting")
  /\ _startRetry' = 0
  /\ pc' = "start"
  /\ steps' = <<>>
  /\ UNCHANGED <<configVars, searchVars, uiVars, traceVars, listeners, dlVars,
                 exeExists, unlinkPending, versionReadable, versionFile,
                 fileTriple, configWritten, cacheZip, builtinZip, startVars,
                 postVars, manualVars, serverUp, elapsedMs, gateResult>>

\* a plausible slip: the return after this.status = 'error' is missing
DoInitFinal_NoReturn ==
  /\ pc = "doInit_final"
  /\ IF _installStatus # "installed"
     THEN SetStatus("error")
     ELSE SetStatus("starting")
  /\ _startRetry' = 0
  /\ pc' = "start"
  /\ steps' = <<>>
  /\ UNCHANGED <<configVars, searchVars, uiVars, traceVars, listeners, dlVars,
                 exeExists, unlinkPending, versionReadable, versionFile,
                 fileTriple, configWritten, cacheZip, builtinZip, startVars,
                 postVars, manualVars, serverUp, elapsedMs, gateResult>>

\* doInit after the gate and the pipeline: error, or begin the start sequence
DoInitFinal ==
  /\ pc = "doInit_final"
  /\ IF _installStatus # "installed"
     THEN /\ SetStatus("error")
          /\ pc' = "done"
          /\ UNCHANGED _startRetry
     ELSE IF _status # "running"
     THEN /\ SetStatus("starting")
          /\ _startRetry' = 0
          /\ pc' = "start"
     ELSE /\ NoSetter
          /\ pc' = "done"
          /\ UNCHANGED _startRetry
  /\ steps' = <<>>
  /\ UNCHANGED <<configVars, searchVars, uiVars, traceVars, listeners, dlVars,
                 exeExists, unlinkPending, versionReadable, versionFile,
                 fileTriple, configWritten, cacheZip, builtinZip, startVars,
                 postVars, manualVars, serverUp, elapsedMs, gateResult>>


\* ------------------------------------------------------------------- start
\* isRunning(): GET /health answers 200; every fault counts as not running
isRunning(up) == up

ProbeText(r) == IF r THEN "ok" ELSE "failed"

\* a plausible slip: the ceiling test uses >= and gives up one attempt early
RetryExceeded_OffByOne(n) == n >= MaxStartRetry

\* start(): if (this._startRetry > 10)
RetryExceeded(n) == n > MaxStartRetry

\* a plausible slip: the server is spawned before the health probe is looked at
Start_SpawnFirst ==
  /\ pc = "start"
  /\ lastProbe' = ProbeText(isRunning(serverUp))
  /\ invProbe1' = ProbeText(isRunning(serverUp))
  /\ probeOkSeen' = (probeOkSeen \/ isRunning(serverUp))
  /\ spawns' = spawns + 1
  /\ invSpawns' = 1
  /\ IF isRunning(serverUp)
     THEN /\ SetStatus("running")
          /\ pc' = "done"
          /\ UNCHANGED _startRetry
     ELSE /\ _startRetry' = _startRetry + 1
          /\ NoSetter
          /\ pc' = "start_settle"
  /\ UNCHANGED <<configVars, searchVars, uiVars, traceVars, listeners, dlVars,
                 diskVars, postVars, manualVars, serverUp, elapsedMs,
                 gateResult>>

\* start(), from its call to the settle delay: first health probe, retry
\* counter, ceiling, spawn (startServer)
Start ==
  /\ pc = "start"
  /\ lastProbe' = ProbeText(isRunning(serverUp))
  /\ invProbe1' = ProbeText(isRunning(serverUp))
  /\ probeOkSeen' = (probeOkSeen \/ isRunning(serverUp))
  /\ IF isRunning(serverUp)
     THEN /\ SetStatus("running")
          /\ pc' = "done"
          /\ invSpawns' = 0
          /\ UNCHANGED <<_startRetry, spawns>>
     ELSE IF RetryExceeded(_startRetry + 1)
     THEN /\ _startRetry' = 0
          /\ SetStatus("error")
          /\ pc' = "done"
          /\ invSpawns' = 0
          /\ UNCHANGED spawns
     ELSE /\ _startRetry' = _startRetry + 1
          /\ spawns' = spawns + 1
          /\ invSpawns' = 1
          /\ NoSetter
          /\ pc' = "start_settle"
  /\ sinceProbe' = (IF isRunning(serverUp) \/ RetryExceeded(_startRetry + 1)
                    THEN 0 ELSE 1)
  /\ failedSinceSpawn' = (IF isRunning(serverUp) THEN failedSinceSpawn
                          ELSE IF RetryExceeded(_startRetry + 1)
                          THEN failedSinceSpawn + 1
                          ELSE 0)
  /\ UNCHANGED stopRequested
  /\ UNCHANGED <<configVars, searchVars, uiVars, listeners, dlVars, diskVars,
                 postVars,
                 manualVars, serverUp, elapsedMs, gateResult>>

\* a plausible slip: the status is set to running without the second probe
StartSettle_NoProbe ==
  /\ pc = "start_settle"
  /\ SetStatus("running")
  /\ pc' = "done"
  /\ UNCHANGED <<configVars, searchVars, uiVars, traceVars, listeners, dlVars,
                 diskVars, startVars, postVars, manualVars, _startRetry,
                 serverUp, elapsedMs, gateResult>>

\* a plausible slip: the success of the second probe resets the counter
StartSettle_ResetsRetry ==
  /\ pc = "start_settle"
  /\ lastProbe' = ProbeText(isRunning(serverUp))
  /\ probeOkSeen' = (probeOkSeen \/ isRunning(serverUp))
  /\ IF isRunning(serverUp)
     THEN /\ SetStatus("running")
          /\ _startRetry' = 0
          /\ pc' = "done"
     ELSE /\ NoSetter
          /\ UNCHANGED _startRetry
          /\ pc' = "start_backoff"
  /\ sinceProbe' = 0
  /\ failedSinceSpawn' = (IF isRunning(serverUp) THEN failedSinceSpawn
                          ELSE failedSinceSpawn + 1)
  /\ UNCHANGED stopRequested
  /\ UNCHANGED <<configVars, searchVars, uiVars, listeners, dlVars, diskVars,
                 postVars, manualVars, spawns, invProbe1, invSpawns,
                 serverUp, elapsedMs, gateResult>>

\* start(), after the 1000 ms settle delay: second health probe; on failure
\* the next start() is scheduled 3000 ms later
StartSettle ==
  /\ pc = "start_settle"
  /\ lastProbe' = ProbeText(isRunning(serverUp))
  /\ probeOkSeen' = (probeOkSeen \/ isRunning(serverUp))
  /\ IF isRunning(serverUp)
     THEN /\ SetStatus("running")
          /\ pc' = "done"
     ELSE /\ NoSetter
          /\ pc' = "start_backoff"
  /\ sinceProbe' = 0
  /\ failedSinceSpawn' = (IF isRunning(serverUp) THEN failedSinceSpawn
                          ELSE failedSinceSpawn + 1)
  /\ UNCHANGED stopRequested
  /\ UNCHANGED <<configVars, searchVars, uiVars, listeners, dlVars, diskVars,
                 postVars,
                 manualVars, spawns, invProbe1, invSpawns, _startRetry,
                 serverUp, elapsedMs, gateResult>>

\* a plausible slip: the timer spawns again instead of calling start()
StartBackoff_SpawnsDirectly ==
  /\ pc = "start_backoff"
  /\ spawns' = spawns + 1
  /\ pc' = "start_settle"
  /\ NoSetter
  /\ UNCHANGED <<configVars, searchVars, uiVars, traceVars, listeners, dlVars,
                 diskVars, lastProbe, probeOkSeen, invProbe1, invSpawns,
                 postVars, manualVars, _startRetry, serverUp, elapsedMs,
                 gateResult>>

\* the 3000 ms timer fires: this.start()
StartBackoff ==
  /\ pc = "start_backoff"
  /\ pc' = "start"
  /\ NoSetter
  /\ UNCHANGED <<configVars, searchVars, uiVars, traceVars, listeners, dlVars,
                 diskVars, startVars, postVars, manualVars, _startRetry,
                 serverUp, elapsedMs, gateResult>>

\* ------------------------------------------------------- control surface
\* a plausible slip: the guard only rejects the two failure states
HaystackPost_LooseGuard(st) ==
  IF st \in {"unsupported", "error"} THEN "threw" ELSE "sent"

\* Haystack.post: throws unless running, else issues the HTTP request
HaystackPost(st) == IF st # "running" THEN "threw" ELSE "sent"

\* HaystackProvider.post: its own check, then Haystack.post
ProviderPost(st) == IF st # "running" THEN "threw" ELSE HaystackPost(st)

\* a caller invokes haystack.post(uri, data)
Post ==
  /\ lastPost' = HaystackPost(_status)
  /\ lastPostVia' = "core"
  /\ NoSetter
  /\ UNCHANGED <<configVars, searchVars, uiVars, traceVars, listeners, dlVars,
                 diskVars, startVars, manualVars, _startRetry, pc, serverUp,
                 elapsedMs, gateResult>>

\* a HaystackProvider operation goes through the provider's post wrapper
PostViaProvider ==
  /\ lastPost' = ProviderPost(_status)
  /\ lastPostVia' = "provider"
  /\ NoSetter
  /\ UNCHANGED <<configVars, searchVars, uiVars, traceVars, listeners, dlVars,
                 diskVars, startVars, manualVars, _startRetry, pc, serverUp,
                 elapsedMs, gateResult>>

\* HaystackProvider.post of a provider constructed with core:
\* !this.haystack throws before the status is looked at
ProviderPostOf(core, st) ==
  IF core = "null" THEN "threw" ELSE ProviderPost(st)

\* the queries of the test suite, and whether the indexed workspace holds a
\* match for them
Queries == {"test", "nonexistentquery"}
Matching(q) == q = "test"

SearchEntry(q, outcome, n, truncated) ==
  [query |-> q, outcome |-> outcome, results |-> n, truncated |-> truncated]

\* HaystackProvider.search(query, options): the post, then the answer of the
\* backend (code, number of results, truncate flag); every throw inside the
\* try is thrown again by the catch
ProviderSearch ==
  /\ Len(searchLog) < MaxSearches
  /\ \E q \in Queries, code \in {0, 1}, n \in 0..MaxResults,
        trunc \in BOOLEAN :
       /\ (n > 0) <=> Matching(q)
       /\ trunc => n = MaxResults
       /\ searchLog' = Append(searchLog,
            IF ProviderPostOf(providerCore, _status) = "threw" \/ ~serverUp
            THEN SearchEntry(q, "rejected", 0, FALSE)
            ELSE IF code = 0
            THEN SearchEntry(q, "resolved", n, trunc)
            ELSE SearchEntry(q, "resolved", 0, FALSE))
  /\ NoSetter
  /\ UNCHANGED <<configVars, providerCore, uiVars, traceVars, listeners,
                 dlVars, diskVars, startVars, postVars, manualVars,
                 _startRetry, pc, serverUp, elapsedMs, gateResult>>

\* a plausible slip: the command is refused while start() is in flight
StartServerCommand_InFlightGuard ==
  /\ manualSpawns < MaxManual
  /\ pc \notin {"start", "start_settle", "start_backoff"}
  /\ manualSpawns' = manualSpawns + 1
  /\ manualInError' = (manualInError \/ _status = "error")
  /\ NoSetter
  /\ sinceProbe' = sinceProbe + 1
  /\ UNCHANGED <<stopRequested, failedSinceSpawn>>
  /\ UNCHANGED <<configVars, searchVars, uiVars, listeners, dlVars, diskVars,
                 startVars, postVars, _startRetry, pc, serverUp, elapsedMs,
                 gateResult>>

\* everything but the update timers and the search view
coreVars ==
  <<configVars, searchVars, traceVars, listeners, dlVars, diskVars,
    startVars, postVars, manualVars, _status, _installStatus, events, calls,
    rejected, _startRetry, pc, serverUp, elapsedMs, gateResult>>

\* a timer as setTimeout returns it, with the path its callback closes over
Timer(id, path) == [id |-> id, path |-> path]

\* clearTimeout(existingTimeout): a timer that has fired or was cleared is
\* no longer among the pending ones, and clearing it does nothing
ClearTimeout(ts, id) == {t \in ts : t.id # id}

\* onDidSaveTextDocument for the relative path p: the timer stored for p is
\* cleared, a timer of 500 ms is set and stored under p
SaveDocument(p) ==
  /\ saves < MaxSaves
  /\ saves' = saves + 1
  /\ timers' = ClearTimeout(timers, updateTimeouts[p])
                 \cup {Timer(saves + 1, p)}
  /\ updateTimeouts' = [updateTimeouts EXCEPT ![p] = saves + 1]
  /\ UNCHANGED <<updating, updateCalls, coreVars, viewVars>>

\* the callback of an update timer begins: updateDocument(relativePath) is
\* called; its post throws at once unless the core is there and running,
\* and then the callback ends without the delete
UpdateTimerFires(t) ==
  /\ t \in timers
  /\ timers' = timers \ {t}
  /\ updateCalls' = [updateCalls EXCEPT ![t.path] = @ + 1]
  /\ updating' = (IF ProviderPostOf(providerCore, _status) = "threw"
                  THEN updating ELSE updating \cup {t})
  /\ UNCHANGED <<updateTimeouts, saves, coreVars, viewVars>>

\* updateDocument settles: when it resolved, the callback goes on to
\* this.updateTimeouts.delete(relativePath), which removes whatever is stored
\* under the path; when it rejected, the callback ends there
UpdateDocumentReturns(t) ==
  /\ t \in updating
  /\ updating' = updating \ {t}
  /\ \E resolved \in BOOLEAN :
       updateTimeouts' = (IF resolved
                          THEN [updateTimeouts EXCEPT ![t.path] = 0]
                          ELSE updateTimeouts)
  /\ UNCHANGED <<timers, updateCalls, saves, coreVars, viewVars>>

\* dispose(): clearTimeout for every timer stored in the map, then clear()
Dispose ==
  /\ \E p \in Paths : updateTimeouts[p] # 0
  /\ timers' = {t \in timers : \A p \in Paths : updateTimeouts[p] # t.id}
  /\ updateTimeouts' = [p \in Paths |-> 0]
  /\ UNCHANGED <<updating, updateCalls, saves, coreVars, viewVars>>

\* ------------------------------------------------------------ search view
\* the texts searched for
Texts == {"foo", "bar"}

SearchMessage(q) == [type |-> "search", query |-> q]
SetSearchText(t) == [type |-> "setSearchText", text |-> t]
\* origin is not part of the message: it tells which request the results
\* answer, one posted by the webview ("view") or the search that searchText
\* starts itself ("direct")
SearchResults(origin) == [type |-> "searchResults", origin |-> origin]

\* performSearch() of the webview script: nothing while the flag is set;
\* with an empty input the flag is reset; else the flag stays set and a
\* 'search' message is posted
PerformSearch(input) ==
  IF isSearching \/ input = ""
  THEN UNCHANGED <<isSearching, toHost, viewPosted>>
  ELSE /\ isSearching' = TRUE
       /\ toHost' = Append(toHost, SearchMessage(input))
       /\ viewPosted' = viewPosted + 1

\* the user types a text and asks for the search (Enter, the search button)
UserSearch ==
  /\ searchTextCalls + userSearches < MaxUiOps
  /\ userSearches' = userSearches + 1
  /\ \E t \in Texts :
       /\ searchInput' = t
       /\ PerformSearch(t)
  /\ UNCHANGED <<toView, handling, handled, viewAnswered, resultsPosted,
                 searchTextCalls, coreVars, saveVars>>

\* handleSearch(webview, query, options) up to its await: one call of
\* HaystackProvider.search
HandleSearch(origin, q) ==
  /\ handled' = handled + 1
  /\ handling' = handling \cup {[id |-> handled + 1, origin |-> origin,
                                 query |-> q]}

\* onDidReceiveMessage, case 'search'
HostReceives ==
  /\ toHost # <<>>
  /\ toHost' = Tail(toHost)
  /\ HandleSearch("view", Head(toHost).query)
  /\ UNCHANGED <<isSearching, searchInput, toView, viewPosted, viewAnswered,
                 resultsPosted, searchTextCalls, userSearches, coreVars,
                 saveVars>>

\* handleSearch after the await: the search resolved, or it rejected (as it
\* does at once when the core is not running) and the catch answers; a
\* 'searchResults' message is posted either way
HandleSearchSettles(h) ==
  /\ h \in handling
  /\ handling' = handling \ {h}
  /\ toView' = Append(toView, SearchResults(h.origin))
  /\ resultsPosted' = resultsPosted + 1
  /\ UNCHANGED <<isSearching, searchInput, toHost, handled, viewPosted,
                 viewAnswered, searchTextCalls, userSearches, coreVars,
                 saveVars>>

\* the message handler of the webview: 'searchResults' goes to
\* displayResults, which resets the flag; 'setSearchText' with a text sets
\* the input and calls performSearch
ViewReceives ==
  /\ toView # <<>>
  /\ toView' = Tail(toView)
  /\ LET m == Head(toView)
     IN  IF m.type = "searchResults"
         THEN /\ isSearching' = FALSE
              /\ viewAnswered' = viewAnswered
                                   + (IF m.origin = "view" THEN 1 ELSE 0)
              /\ UNCHANGED <<searchInput, toHost, viewPosted>>
         ELSE /\ searchInput' = m.text
              /\ PerformSearch(m.text)
              /\ UNCHANGED viewAnswered
  /\ UNCHANGED <<handling, handled, resultsPosted, searchTextCalls,
                 userSearches, coreVars, saveVars>>

\* SearchViewProvider.searchText(text) with the view there: 'setSearchText'
\* is posted to the webview and handleSearch is called with the text
SearchText ==
  /\ searchTextCalls + userSearches < MaxUiOps
  /\ searchTextCalls' = searchTextCalls + 1
  /\ \E t \in Texts :
       /\ toView' = Append(toView, SetSearchText(t))
       /\ HandleSearch("direct", t)
  /\ UNCHANGED <<isSearching, searchInput, toHost, viewPosted, viewAnswered,
                 resultsPosted, userSearches, coreVars, saveVars>>

\* the haystack.startServer command: Haystack.startServer() runs exec
StartServerCommand ==
  /\ manualSpawns < MaxManual
  /\ manualSpawns' = manualSpawns + 1
  /\ manualInError' = (manualInError \/ _status = "error")
  /\ NoSetter
  /\ sinceProbe' = sinceProbe + 1
  /\ UNCHANGED <<stopRequested, failedSinceSpawn>>
  /\ UNCHANGED <<configVars, searchVars, uiVars, listeners, dlVars, diskVars,
                 startVars, postVars, _startRetry, pc, serverUp, elapsedMs,
                 gateResult>>

\* ------------------------------------------------------------ environment
\* a server starts answering on the port (spawned by the core or by others)
ServerComesUp ==
  /\ ~serverUp
  /\ serverUp' = TRUE
  /\ NoSetter
  /\ UNCHANGED <<configVars, searchVars, uiVars, traceVars, listeners, dlVars,
                 diskVars, startVars, postVars, manualVars, _startRetry, pc,
                 elapsedMs, gateResult>>

\* the server stops answering
ServerGoesDown ==
  /\ serverUp
  /\ serverUp' = FALSE
  /\ NoSetter
  /\ UNCHANGED <<configVars, searchVars, uiVars, traceVars, listeners, dlVars,
                 diskVars, startVars, postVars, manualVars, _startRetry, pc,
                 elapsedMs, gateResult>>

\* the un-awaited fs.promises.unlink(coreFilePath) takes effect
UnlinkCompletes ==
  /\ unlinkPending
  /\ unlinkPending' = FALSE
  /\ exeExists' = FALSE
  /\ NoSetter
  /\ UNCHANGED <<configVars, searchVars, uiVars, traceVars, listeners,
                 dlVars, steps,
                 versionReadable, versionFile, fileTriple, configWritten,
                 cacheZip, builtinZip, startVars, postVars, manualVars,
                 _startRetry, pc, serverUp, elapsedMs, gateResult>>

\* ----------------------------------------------------------- specification
Next ==
  \/ AttachListeners
  \/ DoInitUnsupported
  \/ DoInitUnsupportedInstall
  \/ DoInitRemote
  \/ DoInitLocal
  \/ DoInitPresence
  \/ CheckIsCompatibleVersion
  \/ Shutdown
  \/ WaitingForShutdown
  \/ ShutdownDone
  \/ GateUnlink
  \/ Install
  \/ InstallCached
  \/ InstallBuiltin
  \/ InstallPrimary
  \/ InstallFallback
  \/ DoInitFinal
  \/ Start
  \/ StartSettle
  \/ StartBackoff
  \/ Post
  \/ PostViaProvider
  \/ StartServerCommand
  \/ ServerComesUp
  \/ ServerGoesDown
  \/ UnlinkCompletes

Spec == Init /\ [][Next]_vars

TypeOK ==
  /\ _status \in Status
  /\ _installStatus \in InstallStatus
  /\ _startRetry \in 0..MaxStartRetry
  /\ spawns \in 0..MaxStartRetry


\* --------------------------------------- specification of the version gate
\* The gate alone, entered as doInit enters it (executable present, install
\* status just set to installed), for every marker and required version.
InitVersion ==
  /\ _status = "initializing"
  /\ _installStatus = "installed"
  /\ _startRetry = 0
  /\ pc = "checkIsCompatibleVersion"
  /\ providerCore = "core"
  /\ events = <<[type |-> "install-status-change", old |-> "initializing",
                 new |-> "installed", seen |-> "installed", message |-> ""]>>
  /\ calls = <<[axis |-> "install", before |-> "initializing",
                value |-> "installed"]>>
  /\ isHaystackSupported = TRUE
  /\ localServer = TRUE
  /\ requiredTriple \in Triples
  /\ haystackVersion = <<"v">> \o Fmt(requiredTriple)
  /\ exeExists = TRUE
  /\ unlinkPending = FALSE
  /\ versionReadable \in BOOLEAN
  /\ IF versionReadable
     THEN /\ fileTriple \in Triples
          /\ versionFile \in {Fmt(fileTriple), <<"v">> \o Fmt(fileTriple)}
     ELSE /\ fileTriple = <<0, 0, 0>>
          /\ versionFile = <<>>
  /\ configWritten = FALSE
  /\ cacheZip = "absent"
  /\ builtinZip = "absent"
  /\ serverUp = FALSE
  /\ elapsedMs = 0
  /\ gateResult = "none"
  /\ lastProbe = "none"
  /\ probeOkSeen = FALSE
  /\ spawns = 0
  /\ invProbe1 = "none"
  /\ invSpawns = 0
  /\ manualSpawns = 0
  /\ manualInError = FALSE
  /\ lastPost = "none"
  /\ lastPostVia = "none"
  /\ listeners = RegisteredEvents
  /\ rejected = FALSE
  /\ steps = <<>>
  /\ _downloadProgress = [url |-> <<>>, totalSize |-> 0,
                          downloadedSize |-> 0, percent |-> 0]
  /\ dlSource = "none"
  /\ hops = 0
  /\ lastResponse = "none"
  /\ totalSize = 0
  /\ downloadedSize = 0
  /\ lastReportedPercent = 0
  /\ cleanupPending = FALSE
  /\ progressEvents = NoProgressEvents
  /\ searchLog = <<>>
  /\ stopRequested = FALSE
  /\ sinceProbe = 0
  /\ failedSinceSpawn = 0
  /\ updateTimeouts = [p \in Paths |-> 0]
  /\ timers = {}
  /\ updating = {}
  /\ updateCalls = [p \in Paths |-> 0]
  /\ saves = 0
  /\ isSearching = FALSE
  /\ searchInput = ""
  /\ toHost = <<>>
  /\ toView = <<>>
  /\ handling = {}
  /\ handled = 0
  /\ viewPosted = 0
  /\ viewAnswered = 0
  /\ resultsPosted = 0
  /\ searchTextCalls = 0
  /\ userSearches = 0

NextVersion == CheckIsCompatibleVersion

SpecVersion == InitVersion /\ [][NextVersion]_vars

\* ------------------------------------ specification of the marker's text
\* The gate alone, for markers and required versions of one to three
\* components that need not be numbers.  requiredTriple and fileTriple are
\* not read by the gate and stay at zero here.
MarkerPieces == {<<>>, <<"1">>, <<"2">>, <<"x">>}
RequiredPieces == {<<"1">>, <<"2">>, <<"x">>}

\* the texts "a", "a.b" and "a.b.c" with pieces out of ps
VersionTexts(ps) ==
  ps \cup {a \o <<".">> \o b : a \in ps, b \in ps}
     \cup {a \o <<".">> \o b \o <<".">> \o c : a \in ps, b \in ps, c \in ps}

InitMarker ==
  /\ _status = "initializing"
  /\ _installStatus = "installed"
  /\ _startRetry = 0
  /\ pc = "checkIsCompatibleVersion"
  /\ providerCore = "core"
  /\ events = <<[type |-> "install-status-change", old |-> "initializing",
                 new |-> "installed", seen |-> "installed", message |-> ""]>>
  /\ calls = <<[axis |-> "install", before |-> "initializing",
                value |-> "installed"]>>
  /\ isHaystackSupported = TRUE
  /\ localServer = TRUE
  /\ requiredTriple = <<0, 0, 0>>
  /\ haystackVersion \in {<<"v">> \o t : t \in VersionTexts(RequiredPieces)}
  /\ exeExists = TRUE
  /\ unlinkPending = FALSE
  /\ versionReadable = TRUE
  /\ fileTriple = <<0, 0, 0>>
  /\ versionFile \in VersionTexts(MarkerPieces)
                     \cup {<<"v">> \o t : t \in VersionTexts(MarkerPieces)}
  /\ configWritten = FALSE
  /\ cacheZip = "absent"
  /\ builtinZip = "absent"
  /\ serverUp = FALSE
  /\ elapsedMs = 0
  /\ gateResult = "none"
  /\ lastProbe = "none"
  /\ probeOkSeen = FALSE
  /\ spawns = 0
  /\ invProbe1 = "none"
  /\ invSpawns = 0
  /\ manualSpawns = 0
  /\ manualInError = FALSE
  /\ lastPost = "none"
  /\ lastPostVia = "none"
  /\ listeners = RegisteredEvents
  /\ rejected = FALSE
  /\ steps = <<>>
  /\ _downloadProgress = [url |-> <<>>, totalSize |-> 0,
                          downloadedSize |-> 0, percent |-> 0]
  /\ dlSource = "none"
  /\ hops = 0
  /\ lastResponse = "none"
  /\ totalSize = 0
  /\ downloadedSize = 0
  /\ lastReportedPercent = 0
  /\ cleanupPending = FALSE
  /\ progressEvents = NoProgressEvents
  /\ searchLog = <<>>
  /\ stopRequested = FALSE
  /\ sinceProbe = 0
  /\ failedSinceSpawn = 0
  /\ updateTimeouts = [p \in Paths |-> 0]
  /\ timers = {}
  /\ updating = {}
  /\ updateCalls = [p \in Paths |-> 0]
  /\ saves = 0
  /\ isSearching = FALSE
  /\ searchInput = ""
  /\ toHost = <<>>
  /\ toView = <<>>
  /\ handling = {}
  /\ handled = 0
  /\ viewPosted = 0
  /\ viewAnswered = 0
  /\ resultsPosted = 0
  /\ searchTextCalls = 0
  /\ userSearches = 0

NextMarker == CheckIsCompatibleVersion

SpecMarker == InitMarker /\ [][NextMarker]_vars

\* ------------------------------------------- specification of the download
\* The local-mode initialization of a machine with no executable, with
\* downloadFile followed step by step instead of InstallPrimary and
\* InstallFallback.
InitDownload ==
  /\ Init
  /\ isHaystackSupported
  /\ localServer
  /\ ~exeExists
  /\ ~versionReadable
  /\ ~serverUp

NextDownload ==
  \/ DoInitLocal
  \/ AttachListeners
  \/ DoInitPresence
  \/ Install
  \/ InstallCached
  \/ InstallBuiltin
  \/ DownloadStart
  \/ DownloadResponse
  \/ DownloadRedirectUnlinked
  \/ DownloadRedirect
  \/ DownloadData
  \/ DownloadFileError
  \/ DownloadFinish
  \/ DownloadSucceeded
  \/ DownloadFailed
  \/ CleanupUnlink
  \/ DoInitFinal

SpecDownload == InitDownload /\ [][NextDownload]_vars

\* ------------------------------------ specification of a redirect cycle
\* The initialization of SpecDownload against a remote that answers every
\* request with a 3xx and a redirect target.  Answers arrive and callbacks
\* of the file system run: every step that can be taken is taken in time.
NextRedirectCycle ==
  \/ DoInitLocal
  \/ AttachListeners
  \/ DoInitPresence
  \/ Install
  \/ InstallCached
  \/ InstallBuiltin
  \/ DownloadStart
  \/ DownloadRedirecting
  \/ DownloadRedirectUnlinked
  \/ DownloadRedirect
  \/ DoInitFinal

SpecRedirectCycle ==
  InitDownload /\ [][NextRedirectCycle]_vars /\ WF_vars(NextRedirectCycle)

\* ------------------------------------- specification of the shutdown wait
\* shutdown() as checkIsCompatibleVersion enters it (executable present,
\* marker unreadable), with a server that may stop at any time; the loop of
\* waitingForShutdown is scheduled as long as it has a turn to take.
InitShutdown ==
  /\ Constructed
  /\ providerCore = "core"
  /\ isHaystackSupported = TRUE
  /\ localServer = TRUE
  /\ requiredTriple \in FlowRequired
  /\ haystackVersion = <<"v">> \o Fmt(requiredTriple)
  /\ exeExists = TRUE
  /\ versionReadable = FALSE
  /\ fileTriple = <<0, 0, 0>>
  /\ versionFile = <<>>
  /\ cacheZip \in ZipStates
  /\ builtinZip \in ZipStates
  /\ serverUp \in BOOLEAN

NextShutdown ==
  \/ DoInitLocal
  \/ AttachListeners
  \/ DoInitPresence
  \/ CheckIsCompatibleVersion
  \/ Shutdown
  \/ WaitingForShutdown
  \/ ShutdownDone
  \/ GateUnlink
  \/ ServerComesUp
  \/ ServerGoesDown

SpecShutdown ==
  InitShutdown /\ [][NextShutdown]_vars /\ WF_vars(WaitingForShutdown)

\* --------------------------------------------- specification of the search
\* HaystackProvider.search on a provider constructed with the core of a
\* non-local or unsupported set-up, or with null as the test suite does.
InitSearch ==
  /\ Constructed
  /\ providerCore \in {"core", "null"}
  /\ isHaystackSupported \in BOOLEAN
  /\ localServer = FALSE
  /\ requiredTriple \in FlowRequired
  /\ haystackVersion = <<"v">> \o Fmt(requiredTriple)
  /\ exeExists = FALSE
  /\ versionReadable = FALSE
  /\ fileTriple = <<0, 0, 0>>
  /\ versionFile = <<>>
  /\ cacheZip = "absent"
  /\ builtinZip = "absent"
  /\ serverUp \in BOOLEAN

NextSearch ==
  \/ DoInitUnsupported
  \/ DoInitUnsupportedInstall
  \/ DoInitRemote
  \/ AttachListeners
  \/ ServerComesUp
  \/ ServerGoesDown
  \/ ProviderSearch

SpecSearch == InitSearch /\ [][NextSearch]_vars

\* ---------------------------------- specification of the save debounce
\* The provider of SpecSearch, with documents saved at any time and the
\* update timers firing at any time after they were set.
NextSave ==
  \/ DoInitUnsupported
  \/ DoInitUnsupportedInstall
  \/ DoInitRemote
  \/ AttachListeners
  \/ \E p \in Paths : SaveDocument(p)
  \/ \E t \in timers : UpdateTimerFires(t)
  \/ \E t \in updating : UpdateDocumentReturns(t)
  \/ Dispose

SpecSave == InitSearch /\ [][NextSave]_vars

\* ------------------------------------ specification of the search view
\* The search view once resolved, with the user searching and searchText
\* called at any time; messages are handled in the order they were posted,
\* and every search of the provider settles.
NextView ==
  \/ DoInitUnsupported
  \/ DoInitUnsupportedInstall
  \/ DoInitRemote
  \/ AttachListeners
  \/ UserSearch
  \/ SearchText
  \/ HostReceives
  \/ \E h \in handling : HandleSearchSettles(h)
  \/ ViewReceives

SpecView == InitSearch /\ [][NextView]_vars /\ WF_vars(NextView)

\* ------------------------------------------------------------------ claims
EventsOf(t) == SelectSeq(events, LAMBDA e : e.type = t)
CallsOf(a) == SelectSeq(calls, LAMBDA c : c.axis = a)
ChangesOf(a) == SelectSeq(calls, LAMBDA c : c.axis = a /\ c.before # c.value)

\* on one axis: the change events are exactly the assignments of a different
\* value, in order, each carrying {old, new} with old # new and delivered with
\* the field already new; assignments of the current value change nothing
AxisEventsMatch(a, t, field) ==
  LET ev == EventsOf(t)
      ch == ChangesOf(a)
      all == CallsOf(a)
  IN  /\ Len(ev) = Len(ch)
      /\ \A i \in 1..Len(ev) :
           /\ ev[i].old = ch[i].before
           /\ ev[i].new = ch[i].value
           /\ ev[i].old # ev[i].new
           /\ ev[i].seen = ev[i].new
      /\ \A i \in 2..Len(all) : all[i].before = all[i - 1].value
      /\ field = IF all = <<>> THEN "initializing" ELSE all[Len(all)].value

\* C1: every assignment of a different value to the lifecycle status (resp.
\* the install status) emits exactly one status-change (resp.
\* install-status-change) event {old, new}, old # new, delivered after the
\* field was updated; an assignment of the current value emits nothing and
\* changes nothing.
C1_OneEventPerChange ==
  /\ AxisEventsMatch("status", "status-change", _status)
  /\ AxisEventsMatch("install", "install-status-change", _installStatus)

\* a no-op assignment (shutdown's status = 'initializing') and real changes
\* on both axes have happened
C1_Witness ==
  /\ \E i \in 1..Len(calls) :
       calls[i].axis = "status" /\ calls[i].before = calls[i].value
  /\ Len(EventsOf("status-change")) >= 2
  /\ Len(EventsOf("install-status-change")) >= 3

\* C2: post issues the HTTP request only when the lifecycle status is
\* running and throws, without a request, in every other status; the same
\* for a post made through HaystackProvider's wrapper.
C2_PostOnlyWhenRunning ==
  [][<<lastPost, lastPostVia>>' # <<lastPost, lastPostVia>> =>
       /\ (lastPost' = "sent") <=> (_status = "running")
       /\ (lastPost' = "threw") <=> (_status # "running")]_vars

\* a post through the provider was rejected before the core left
\* initializing
C2_Witness ==
  /\ lastPost = "threw"
  /\ lastPostVia = "provider"
  /\ _status = "initializing"

\* C3: install status unsupported implies lifecycle status unsupported, in
\* every state, the one between the two assignments of doInit included.
C3_UnsupportedTogether ==
  _installStatus = "unsupported" => _status = "unsupported"

\* both assignments of the unsupported branch were made
C3_Witness ==
  /\ _installStatus = "unsupported"
  /\ pc = "done"
  /\ Len(events) = 2

\* C4 as stated: running implies installed, in local and non-local mode.
C4_RunningImpliesInstalled ==
  _status = "running" => _installStatus = "installed"

\* C4 amended: in local mode running implies installed; in non-local mode
\* the status is running while the install status stays initializing.
C4_RunningImpliesInstalledLocal ==
  _status = "running" =>
    IF localServer THEN _installStatus = "installed"
    ELSE _installStatus = "initializing"

\* local mode reached running after the pipeline installed the executable
C4_Witness ==
  /\ _status = "running"
  /\ localServer
  /\ configWritten

\* C5: every change of the lifecycle status is one of the listed
\* transitions; nothing leaves unsupported and nothing leaves error.
C5_LifecycleTransitions ==
  [][_status' # _status =>
       \/ /\ _status = "initializing" /\ _status' = "unsupported"
          /\ ~isHaystackSupported
       \/ /\ _status = "initializing" /\ _status' = "running"
          /\ ~localServer
       \/ /\ _status = "initializing" /\ _status' = "starting"
          /\ localServer /\ _installStatus = "installed"
       \/ /\ _status = "starting" /\ _status' = "running"
          /\ pc \in {"start", "start_settle"} /\ lastProbe' = "ok"
       \/ /\ _status = "starting" /\ _status' = "error"
       \/ /\ _status = "running" /\ _status' = "initializing"
       \/ /\ _status \notin {"unsupported", "error"} /\ _status' = "error"
    ]_vars

\* the start sequence spawned at least once and then found the server healthy
C5_Witness ==
  /\ _status = "running"
  /\ localServer
  /\ spawns >= 2
  /\ lastProbe = "ok"

\* C6 as stated: the install status only changes along the listed arrows.
C6_InstallTransitions ==
  [][_installStatus' # _installStatus =>
       <<_installStatus, _installStatus'>> \in
         {<<"initializing", "unsupported">>, <<"initializing", "installed">>,
          <<"initializing", "not-installed">>,
          <<"not-installed", "downloading">>, <<"downloading", "installed">>,
          <<"downloading", "error">>, <<"installed", "not-installed">>}
    ]_vars

\* C6 amended: the listed arrows, and not-installed -> installed (install
\* from the cached or the bundled archive) and not-installed -> error (the
\* download directory cannot be created).
C6_InstallTransitionsAmended ==
  [][_installStatus' # _installStatus =>
       <<_installStatus, _installStatus'>> \in
         {<<"initializing", "unsupported">>, <<"initializing", "installed">>,
          <<"initializing", "not-installed">>,
          <<"not-installed", "downloading">>, <<"downloading", "installed">>,
          <<"downloading", "error">>, <<"installed", "not-installed">>,
          <<"not-installed", "installed">>, <<"not-installed", "error">>}
    ]_vars

\* the gate sent an installed core back to not-installed, and the pipeline
\* then installed it without downloading
C6_Witness ==
  /\ \E i \in 1..Len(calls) :
       calls[i] = [axis |-> "install", before |-> "installed",
                   value |-> "not-installed"]
  /\ \E i \in 1..Len(calls) :
       calls[i] = [axis |-> "install", before |-> "not-installed",
                   value |-> "installed"]

\* installed >= required in (major, minor, patch) order
LexGE(a, b) ==
  \/ a[1] > b[1]
  \/ a[1] = b[1] /\ a[2] > b[2]
  \/ a[1] = b[1] /\ a[2] = b[2] /\ a[3] >= b[3]

\* the gate has just given its verdict on a readable marker
GateJustDecided ==
  \/ gateResult = "compatible" /\ pc = "doInit_final"
  \/ gateResult = "incompatible" /\ pc = "install"

\* C7: for a marker and a required version that are numeric triples, with
\* or without a leading v, isVersionCompatible is true iff installed >=
\* required in lexicographic (major, minor, patch) order.
C7_VersionOrder ==
  GateJustDecided =>
    ((gateResult = "compatible") <=> LexGE(fileTriple, requiredTriple))

\* a marker without v, newer in minor and older in patch (1.10.0 against
\* v1.2.1), was found compatible
C7_Witness ==
  /\ GateJustDecided
  /\ gateResult = "compatible"
  /\ Head(versionFile) # "v"
  /\ fileTriple[1] = requiredTriple[1]
  /\ fileTriple[2] = 10 /\ requiredTriple[2] = 2
  /\ fileTriple[3] < requiredTriple[3]

\* C8: a start() whose first health probe succeeds sets the status to
\* running and spawns no process.
C8_HealthyMeansNoSpawn ==
  invProbe1 = "ok" =>
    /\ _status = "running"
    /\ invSpawns = 0
    /\ pc = "done"

\* the very first start() found a server already running: nothing was spawned
C8_Witness ==
  /\ invProbe1 = "ok"
  /\ _status = "running"
  /\ spawns = 0

\* C9: a start sequence whose health probes all fail spawns the executable
\* exactly 10 times and ends in error with the retry counter at 0; no start
\* sequence spawns more than 10 times, and none spawns after the error.
C9_TenSpawnsThenError ==
  /\ spawns <= 10
  /\ (pc = "done" /\ invProbe1 # "none" /\ ~probeOkSeen) =>
       (_status = "error" /\ spawns = 10 /\ _startRetry = 0)
  /\ (_status = "error" /\ invProbe1 # "none") =>
       (spawns = 10 /\ _startRetry = 0 /\ ~probeOkSeen /\ pc = "done")

\* the start sequence gave up
C9_Witness ==
  /\ _status = "error"
  /\ _installStatus = "installed"
  /\ spawns = 10
  /\ ~probeOkSeen

\* C10 as stated: after haystack.startServer was run in status error (the
\* executable being installed), once the server is healthy and the core has
\* nothing left to do, the status is running.
C10_ManualStartRecovers ==
  (pc = "done" /\ manualInError /\ _installStatus = "installed" /\ serverUp)
    => _status = "running"

\* the fallback download step failed, after the three sources before it
AllFourFailed ==
  \E i \in 1..Len(calls) :
    calls[i] = [axis |-> "install", before |-> "downloading",
                value |-> "error"]

\* C11: when all four acquisition sources fail, the install status is
\* error, doInit goes on to set the lifecycle status to error and ends, and
\* the initialization spawned no process and made no health probe.
C11_AllSourcesFailed ==
  AllFourFailed =>
    /\ _installStatus = "error"
    /\ pc \in {"doInit_final", "done"}
    /\ (pc = "done" => _status = "error")
    /\ spawns = 0
    /\ lastProbe = "none"
    /\ ~probeOkSeen

\* the four sources failed and the initialization has ended
C11_Witness ==
  /\ AllFourFailed
  /\ pc = "done"
  /\ _status = "error"
  /\ _installStatus = "error"

\* some fault was met by the initialization: a status in error
FaultShown == _status = "error" \/ _installStatus = "error"

\* C12: no combination of file-system, archive, network, probe and spawn
\* faults makes doInit (or a start() it scheduled) end by throwing; the
\* initialization ended in error has shown it by its statuses and by error
\* events.
C12_InitNeverThrows ==
  /\ ~rejected
  /\ (pc = "done" /\ FaultShown) => Len(EventsOf("error")) >= 1

\* the initialization ended on a fault, carried by the statuses and events
C12_Witness ==
  /\ pc = "done"
  /\ _status = "error"
  /\ Len(EventsOf("error")) >= 1
  /\ ~rejected

ChangeType(a) == IF a = "status" THEN "status-change"
                 ELSE "install-status-change"

\* the event at i is the change event of axis a into error
ChangeToErrorAt(i, a) ==
  events[i].type = ChangeType(a) /\ events[i].new = "error"

\* the calls of the setter of axis a that moved it into error
ErrorTransitions(a) ==
  SelectSeq(calls, LAMBDA c : c.axis = a /\ c.value = "error"
                              /\ c.before # "error")

\* C13: every change event of an axis into error is followed at once by one
\* generic error event of that axis, every such error event follows such a
\* change event, and there are as many of them as transitions into error
\* (an assignment of error to an axis already in error emits none).
C13_ErrorEventPerTransition ==
  \A a \in {"status", "install"} :
    /\ \A i \in 1..Len(events) :
         ChangeToErrorAt(i, a) =>
           /\ i < Len(events)
           /\ events[i + 1] = ErrorEvent(a)
           /\ (i + 2 <= Len(events) => events[i + 2] # ErrorEvent(a))
    /\ \A i \in 1..Len(events) :
         events[i] = ErrorEvent(a) => (i > 1 /\ ChangeToErrorAt(i - 1, a))
    /\ Len(SelectSeq(events, LAMBDA e : e = ErrorEvent(a)))
         = Len(ErrorTransitions(a))

\* both axes went into error, each with its error event
C13_Witness ==
  /\ Len(SelectSeq(events, LAMBDA e : e = ErrorEvent("install"))) = 1
  /\ Len(SelectSeq(events, LAMBDA e : e = ErrorEvent("status"))) = 1
  /\ _status = "error"
  /\ _installStatus = "error"

\* C19: a cached archive under 1 MiB is not extracted and installs nothing;
\* when step 1 has just ended the archive is gone and the bundled step is
\* next, and the step that follows in the log is the bundled one.
C19_SmallCachedDeleted ==
  \A i \in 1..Len(steps) :
    (steps[i].src = "cached" /\ steps[i].found = "small") =>
      /\ ~steps[i].extracted
      /\ ~steps[i].installed
      /\ IF i = Len(steps)
         THEN pc = "install_builtin" /\ cacheZip = "absent"
         ELSE steps[i + 1].src = "builtin"

\* a small cached archive was dropped and the bundled archive installed
C19_Witness ==
  /\ Len(steps) = 2
  /\ steps[1] = Step("cached", "small", FALSE, FALSE)
  /\ steps[2].src = "builtin"
  /\ steps[2].installed
  /\ _installStatus = "installed"

\* this step is the start of a download attempt (an invocation of
\* downloadFile: the first of a step, or the one following a redirect)
AttemptStarts == pc # "dl_request" /\ pc' = "dl_request"

\* C14: within one download attempt the percent of the progress record
\* never decreases from one record to the next, and every new attempt (the
\* first of a step, after a redirect, of the fallback) starts at percent 0.
C14_PercentMonotonic ==
  [][/\ ~AttemptStarts =>
          _downloadProgress'.percent >= _downloadProgress.percent
     /\ AttemptStarts =>
          (_downloadProgress'.percent = 0
           /\ _downloadProgress'.downloadedSize = 0)]_vars

\* the fallback download, made after a primary download that had got
\* somewhere and after a redirect, is past the middle of its body
C14_Witness ==
  /\ dlSource = "fallback"
  /\ hops = 1
  /\ pc = "dl_body"
  /\ _downloadProgress.percent >= 50
  /\ \E i \in 1..Len(events) : events[i] = ErrorEvent("file")

\* C15 as stated: a download attempt that completed emitted exactly one
\* download-progress event with percent 0 and exactly one with percent 100.
C15_OneAtZeroOneAtHundred ==
  pc = "dl_done" => (progressEvents.at0 = 1 /\ progressEvents.at100 = 1)

\* C15, amended: a download attempt that completed emitted exactly two
\* download-progress events with percent 0 (at its start and on the 200
\* response), and with percent 100 exactly two when the size is known (the
\* last data event and the finish) and exactly one when it is not.
C15_ZeroTwiceHundredOnceOrTwice ==
  pc = "dl_done" =>
    /\ progressEvents.at0 = 2
    /\ progressEvents.at100
         = (IF _downloadProgress.totalSize > 0 THEN 2 ELSE 1)

\* a download of known size has completed
C15_Witness ==
  /\ pc = "dl_done"
  /\ _downloadProgress.totalSize = BodySize
  /\ _downloadProgress.downloadedSize = BodySize
  /\ progressEvents.at0 = 2
  /\ progressEvents.at100 = 2

\* this step is a data event of a body of known size
DataStepKnownSize ==
  /\ pc = "dl_body" /\ pc' = "dl_body"
  /\ downloadedSize' # downloadedSize
  /\ totalSize > 0

\* C16: while a body of known size is streamed, a data event emits a
\* download-progress event exactly when the percent is at least 5 above the
\* percent of the last emitted event, or is 100.
C16_EventEveryFivePoints ==
  [][DataStepKnownSize =>
       /\ progressEvents'.count \in {progressEvents.count,
                                     progressEvents.count + 1}
       /\ (progressEvents'.count = progressEvents.count + 1)
            <=> (\/ _downloadProgress'.percent - progressEvents.last >= 5
                 \/ _downloadProgress'.percent = 100)]_vars

\* the body is being streamed, events were emitted, and the percent has
\* risen by less than 5 since the last of them
C16_Witness ==
  /\ pc = "dl_body"
  /\ totalSize > 0
  /\ progressEvents.count >= 4
  /\ _downloadProgress.percent > progressEvents.last
  /\ _downloadProgress.percent < progressEvents.last + 5

\* C17 as stated: while a body without content length is streamed, the
\* progress record reports the bytes downloaded so far, and no percentage.
C17_UnknownSizeReportsBytes ==
  (pc = "dl_body" /\ totalSize = 0) =>
    /\ _downloadProgress.downloadedSize = downloadedSize
    /\ _downloadProgress.percent = 0

\* this step is the answer to the request of a download attempt
ResponseStep == pc = "dl_request" /\ pc' # "dl_request"

\* C20: a 3xx answer with a target starts no new request until the partial
\* file is deleted, and the request reissued then is for the next target and
\* writes the same destination anew; the 'finish' of a 200 answer has the
\* whole body written, leaves the archive at the cache path, emits the
\* progress event at 100 and ends the attempt; a 3xx answer without target
\* fails the attempt like any non-200 answer.
C20_RedirectAndTerminal ==
  [][/\ (ResponseStep /\ lastResponse' = "3xx_location") =>
          (pc' = "dl_redirect_unlink" /\ cacheZip' = cacheZip
           /\ hops' = hops /\ progressEvents' = progressEvents)
     /\ (pc = "dl_redirect_unlink" /\ pc' # pc) =>
          (pc' = "dl_redirect" /\ cacheZip' = "absent" /\ hops' = hops)
     /\ (hops' # hops /\ hops' # 0) =>
          (pc = "dl_redirect" /\ hops' = hops + 1)
     /\ (pc = "dl_redirect" /\ pc' # pc) =>
          (/\ pc' = "dl_request"
           /\ cacheZip = "absent" /\ cacheZip' = "partial"
           /\ dlSource' = dlSource
           /\ hops' = (IF hops < MaxHops THEN hops + 1 ELSE hops)
           /\ _downloadProgress'.url = <<dlSource, hops'>>)
     /\ (pc = "dl_body" /\ pc' = "dl_done") =>
          (/\ downloadedSize = BodySize
           /\ (cacheZip = "partial" => cacheZip' = "ok")
           /\ _downloadProgress'.percent = 100
           /\ progressEvents'.count = progressEvents.count + 1
           /\ progressEvents'.last = 100)
     /\ (ResponseStep /\ lastResponse' \in {"3xx", "404"}) =>
          (/\ pc' = "dl_failed"
           /\ cleanupPending'
           /\ hops' = hops
           /\ progressEvents' = progressEvents)]_vars

\* a download that was redirected has completed and left the archive
C20_Witness ==
  /\ pc = "dl_done"
  /\ hops = 1
  /\ _downloadProgress.url = <<dlSource, 1>>
  /\ cacheZip = "ok"

\* this step is a turn of the loop of waitingForShutdown
LoopTurn ==
  pc = "waitingForShutdown" /\ (pc' # pc \/ elapsedMs' # elapsedMs)

\* C18: waitingForShutdown terminates; a turn that finds the server not
\* answering returns at once; a return while the server still answers is
\* made only once more than 20 s have elapsed, and the loop is never in a
\* turn later than one probe and one sleep after the 20 s.
C18_ShutdownWaitTerminates ==
  /\ (pc = "waitingForShutdown") ~> (pc = "shutdown_done")
  /\ [][(LoopTurn /\ ~serverUp) => pc' = "shutdown_done"]_vars
  /\ [][(LoopTurn /\ serverUp /\ pc' = "shutdown_done")
          => elapsedMs > ShutdownTimeoutMs]_vars
  /\ [](pc = "waitingForShutdown"
          => elapsedMs <= ShutdownTimeoutMs + 2 * PollIntervalMs)

\* the server has answered every probe and the 20 s have elapsed
C18_Witness ==
  /\ pc = "waitingForShutdown"
  /\ serverUp
  /\ elapsedMs > ShutdownTimeoutMs

\* C21 as stated: a search on a provider constructed with no core resolves,
\* with a non-empty results list for a query that matches and with an empty
\* list and truncated = false for a query that matches nothing.
C21_SearchResolves ==
  providerCore = "null" =>
    \A i \in 1..Len(searchLog) :
      /\ searchLog[i].outcome = "resolved"
      /\ Matching(searchLog[i].query) => searchLog[i].results > 0
      /\ ~Matching(searchLog[i].query) =>
           (searchLog[i].results = 0 /\ ~searchLog[i].truncated)

SourceOrder == <<"cached", "builtin", "primary", "fallback">>

DownloadPcs ==
  {"dl_request", "dl_redirect_unlink", "dl_redirect", "dl_body", "dl_done",
   "dl_failed", "dl_hung"}

\* the number of steps ended when the step at this position is in progress
StepsBefore ==
  CASE pc = "install_cached" -> 0
    [] pc = "install_builtin" -> 1
    [] pc = "install_primary" -> 2
    [] pc = "install_fallback" -> 3
    [] pc \in DownloadPcs /\ dlSource = "primary" -> 2
    [] pc \in DownloadPcs /\ dlSource = "fallback" -> 3
    [] OTHER -> Len(steps)

C23_StopBeforeDelete ==
  (gateResult = "incompatible" /\ serverUp /\ pc = "install"
   /\ _installStatus = "not-installed")
    => stopRequested

UnreadablePath ==
  {"shutdown", "waitingForShutdown", "shutdown_done", "gate_unlink",
   "install"}

\* C25: with the executable present and the version marker absent or
\* unreadable, the version gate sets neither status to error and emits no
\* error event, leaves install status not-installed, and hands over to the
\* acquisition pipeline.
C25_UnreadableMarkerIsNotAnError ==
  /\ [](gateResult = "unreadable" /\ pc \in UnreadablePath
          => /\ _status # "error"
             /\ _installStatus # "error"
             /\ Len(EventsOf("error")) = 0)
  /\ [](gateResult = "unreadable" /\ pc = "install"
          => _installStatus = "not-installed")
  /\ [][(gateResult = "unreadable" /\ pc \in UnreadablePath
         /\ pc # "install" /\ pc' \notin UnreadablePath) => FALSE]_vars
  /\ [][(pc = "gate_unlink" /\ pc' # pc) => pc' = "install"]_vars

\* the gate met an unreadable marker next to the executable and the
\* pipeline has begun
C25_Witness ==
  /\ gateResult = "unreadable"
  /\ pc = "install_cached"
  /\ ~versionReadable
  /\ _installStatus = "not-installed"
  /\ Len(EventsOf("error")) = 0

\* the start sequence of this initialization has ended with status running
StartEndedRunning ==
  pc = "done" /\ _status = "running" /\ invProbe1 # "none"

\* C26 as stated: after a start sequence that ended running the retry
\* counter is 0, whatever number of failed attempts came before.
C26_RetryZeroWhenRunning == StartEndedRunning => _startRetry = 0

\* C26, amended: the success of a health probe leaves the retry counter as
\* it is, so after a start sequence that ended running the counter is the
\* number of failed attempts (spawns) of the sequence, and 0 only when the
\* first probe of the sequence succeeded.
C26_RetryCountsFailedAttempts ==
  /\ [](StartEndedRunning => _startRetry = spawns)
  /\ [][(pc \in {"start", "start_settle"} /\ pc' = "done"
         /\ _status' = "running") => _startRetry' = _startRetry]_vars

\* running after three failed attempts, the counter still at three
C26_Witness ==
  /\ StartEndedRunning
  /\ lastProbe = "ok"
  /\ spawns = 3
  /\ _startRetry = 3

\* C27: an attempt of start() (an invocation whose first probe failed and
\* which the retry ceiling did not end) increments the counter and spawns
\* exactly once in the step of its failed first probe, then waits and probes
\* a second time; the next invocation is made only by the back-off timer,
\* which is armed only by a failed second probe; a spawn after the first of
\* the sequence has two failed health probes since the spawn before it.
C27_OneSpawnPerAttempt ==
  /\ [][(pc = "start" /\ pc' # pc /\ invProbe1' = "failed"
         /\ ~RetryExceeded(_startRetry + 1))
          => /\ _startRetry' = _startRetry + 1
             /\ spawns' = spawns + 1
             /\ pc' = "start_settle"]_vars
  /\ [][spawns' # spawns
          => /\ pc = "start" /\ pc' = "start_settle"
             /\ invProbe1' = "failed" /\ lastProbe' = "failed"
             /\ _startRetry' = _startRetry + 1
             /\ spawns' = spawns + 1]_vars
  /\ [][(pc = "start_settle" /\ pc' # pc)
          => /\ spawns' = spawns
             /\ pc' = (IF lastProbe' = "ok" THEN "done" ELSE "start_backoff")
        ]_vars
  /\ [][(pc # "start" /\ pc' = "start")
          => \/ pc = "doInit_final" /\ spawns = 0
             \/ pc = "start_backoff" /\ lastProbe = "failed"]_vars
  /\ [][(pc # "start_backoff" /\ pc' = "start_backoff")
          => pc = "start_settle" /\ lastProbe' = "failed"]_vars
  /\ [][(spawns' = spawns + 1 /\ spawns >= 1)
          => failedSinceSpawn = 1 /\ invProbe1' = "failed"]_vars

\* the second attempt of a sequence has spawned, after the second probe of
\* the first attempt and its own first probe both failed
C27_Witness ==
  /\ pc = "start_settle"
  /\ spawns = 2
  /\ _startRetry = 2
  /\ invProbe1 = "failed"
  /\ failedSinceSpawn = 0

\* an invocation of start() is suspended: in a health probe, in the settle
\* delay or in the back-off
StartSuspended == pc \in {"start", "start_settle", "start_backoff"}

EndedOnFailedDownload ==
  /\ pc = "doInit_final"
  /\ _installStatus = "error"
  /\ Len(steps) = 4
  /\ steps[4].src = "fallback"
  /\ steps[4].found = "failed"

RedirectLoop == {"dl_request", "dl_redirect_unlink", "dl_redirect"}

\* C30: against a remote that answers every request with a 3xx and a
\* redirect target, a download once begun is the primary one and stays in
\* its loop of request, deletion and reissue whatever the number of hops
\* made: it neither resolves nor rejects, the fallback source is never
\* reached, install status stays downloading, and requests keep being
\* issued without end.
C30_RedirectCycleNeverEnds ==
  /\ [](dlSource # "none"
          => /\ dlSource = "primary"
             /\ pc \in RedirectLoop
             /\ _installStatus = "downloading"
             /\ ENABLED NextRedirectCycle)
  /\ [](pc \notin {"dl_done", "dl_failed", "dl_hung", "install_fallback"})
  /\ [][dlSource # "none" => dlSource' = dlSource]_vars
  /\ [][(pc = "dl_request" /\ pc' # pc)
          => pc' = "dl_redirect_unlink" /\ hops' = hops]_vars
  /\ (dlSource = "primary") ~> (pc = "dl_redirect" /\ hops = MaxHops)
  /\ (pc = "dl_redirect" /\ hops = MaxHops)
       ~> (pc = "dl_request" /\ hops = MaxHops)
  /\ (pc = "dl_request" /\ hops = MaxHops)
       ~> (pc = "dl_redirect" /\ hops = MaxHops)

\* the request was reissued after more redirects than the model counts and
\* is answered by one more redirect
C30_Witness ==
  /\ pc = "dl_redirect_unlink"
  /\ hops = MaxHops
  /\ dlSource = "primary"
  /\ lastResponse = "3xx_location"
  /\ _installStatus = "downloading"
  /\ _downloadProgress.url = <<"primary", MaxHops>>

\* this step ends a step of the acquisition pipeline
PipelineStepEnds == Len(steps') = Len(steps) + 1

\* C31: a step of the pipeline that sets install status to installed has
\* extracted the archive and leaves the version marker holding exactly the
\* required version and the runtime configuration written; install status
\* becomes installed in the pipeline by such a step only; a step whose
\* extraction or one of whose writes failed counts as failed and does not
\* set installed.
C31_InstalledAfterBookkeeping ==
  /\ [][(PipelineStepEnds /\ steps'[Len(steps')].installed)
          => /\ steps'[Len(steps')].extracted
             /\ exeExists'
             /\ versionReadable' /\ versionFile' = haystackVersion
             /\ fileTriple' = requiredTriple
             /\ configWritten'
             /\ _installStatus' = "installed"]_vars
  /\ [][(PipelineStepEnds /\ ~steps'[Len(steps')].installed)
          => /\ _installStatus' # "installed"
             /\ pc' # "start"]_vars
  /\ [][(PipelineStepEnds
         /\ (~steps'[Len(steps')].extracted \/ ~configWritten'
             \/ ~versionReadable' \/ versionFile' # haystackVersion))
          => ~steps'[Len(steps')].installed]_vars
  /\ [][(_installStatus # "installed" /\ _installStatus' = "installed"
         /\ pc # "doInit_presence")
          => PipelineStepEnds /\ steps'[Len(steps')].installed]_vars

\* the cached archive failed at its writes after the marker, the bundled one
\* installed: marker and configuration are on disk
C31_Witness ==
  /\ pc = "doInit_final"
  /\ _installStatus = "installed"
  /\ Len(steps) = 2
  /\ steps[1].extracted /\ ~steps[1].installed
  /\ steps[2].installed
  /\ versionFile = haystackVersion
  /\ configWritten

\* C32 as stated: once install status has become installed after the
\* version gate started the deletion of an old executable, the executable
\* is on disk: the deletion took effect before the extraction and cannot
\* remove what was extracted.
C32_NewExecutableSurvives ==
  (gateResult \in {"incompatible", "unreadable"}
   /\ _installStatus = "installed"
   /\ pc \in {"doInit_final", "start", "start_settle", "start_backoff",
              "done"})
    => exeExists

\* C33 as stated: the clean-up of the failed primary attempt has completed
\* before the fallback download creates its file, so while the fallback
\* download is requesting, writing or done, its file is at the cache path.
C33_CleanupSparesLaterAttempt ==
  (dlSource = "fallback" /\ pc \in {"dl_request", "dl_body", "dl_done"})
    => (cacheZip \in {"partial", "ok"} /\ ~cleanupPending)

\* C34 as stated: with the listeners attached as soon as the constructor
\* has returned, every change of the lifecycle status is made while the
\* status-change listener is attached, and so is delivered to it.
C34_TransitionsDelivered ==
  [][_status' # _status => "status-change" \in listeners]_vars

\* the setter of the install status was called with 'downloading'
EnteredDownloading ==
  \E i \in 1..Len(calls) :
    calls[i].axis = "install" /\ calls[i].value = "downloading"

BothNumeric(cur, req, i) ==
  /\ i <= Len(cur) /\ i <= Len(req)
  /\ cur[i] >= 0 /\ req[i] >= 0

\* the first three positions at which both hold a number and the numbers
\* differ
Deciding(cur, req) ==
  {i \in 1..3 : BothNumeric(cur, req, i) /\ cur[i] # req[i]}

\* C36: the verdict of isVersionCompatible is that of the first of the
\* three positions at which marker and required version both hold a number
\* and differ, and compatible when there is none: a component missing or
\* not a number, on either side, counts as equal.  So a marker of fewer
\* than three components, all equal to the required ones, and a marker none
\* of whose components is a number, are compatible, and the gate leaves the
\* executable and the install status as they are.
C36_MissingComponentsCountEqual ==
  LET cur == VersionParts(versionFile)
      req == VersionParts(haystackVersion)
      d == Deciding(cur, req)
      first == CHOOSE i \in d : \A j \in d : i <= j
  IN  gateResult # "none" =>
        /\ (gateResult = "compatible") <=>
             (d = {} \/ cur[first] > req[first])
        /\ (Len(cur) < 3
            /\ \A i \in 1..Len(cur) :
                 BothNumeric(cur, req, i) /\ cur[i] = req[i])
             => gateResult = "compatible"
        /\ (\A i \in 1..Len(cur) : cur[i] = NaN)
             => gateResult = "compatible"
        /\ gateResult = "compatible"
             => /\ pc = "doInit_final"
                /\ _installStatus = "installed"
                /\ exeExists /\ ~unlinkPending

\* the marker 1.2 was judged compatible with the required v1.2.1
C36_Witness ==
  /\ versionFile = <<"1", ".", "2">>
  /\ haystackVersion = <<"v", "1", ".", "2", ".", "1">>
  /\ gateResult = "compatible"
  /\ pc = "doInit_final"

\* the update timers pending for path p
PendingFor(p) == {t \in timers : t.path = p}

\* C37 as stated: for each path at most one update timer is pending at any
\* time, and a save of a path cancels the timer pending for it.
C37_OneTimerPerPath ==
  \A p \in Paths : Cardinality(PendingFor(p)) <= 1

\* C38 as stated: of the 'search' messages the webview has posted, at most
\* one is not answered yet.
C38_OneSearchOutstanding == viewPosted - viewAnswered <= 1

\* C39 as stated: one call of searchText, with no search asked for by the
\* user, causes one backend search and one 'searchResults' message, never a
\* second one.
C39_OneSearchPerCall ==
  (searchTextCalls = 1 /\ userSearches = 0)
    => (handled <= 1 /\ resultsPosted <= 1)

====
